---------------------------- MODULE Spec2Model ----------------------------
(***************************************************************************)
(* flockmind: the replicated state machine (HiveState), the policy         *)
(* validator, the executor, the daemon's control loops, the HTTP write     *)
(* handlers, the sled-backed raft storage and the brain's ActionTracker.   *)
(*                                                                         *)
(* The specifications share the variables below:                           *)
(*   SpecSM       the state machine alone: arbitrary commands are          *)
(*                committed and every replica applies them at its own pace *)
(*                and at its own wall-clock time;                          *)
(*   Spec         the cluster as the program drives it: daemon loops, HTTP *)
(*                handlers, executor, leader changes;                      *)
(*   SpecStorage  one node's storage: append, apply_to_state_machine step  *)
(*                by step, sled's flushes, crash and restart;              *)
(*   SpecTracker  one ActionTracker under arbitrary calls, the clock       *)
(*                advancing;                                               *)
(*   SpecSimilarity  is_similar_action on pairs of actions;                *)
(*   SpecPlanner  the planner loop with its tracker on every node, and     *)
(*                SpecPlannerFair, the same with time passing and the      *)
(*                loops' ticks occurring forever;                          *)
(*   SpecFair     Spec with the task-runner loop running forever;          *)
(*   SpecShutdown one daemon's three loops through their select and        *)
(*                shutdown(), and SpecShutdownFair, the same with the      *)
(*                loops' bodies and breaks eventually taken;               *)
(*   SpecValidator  validate on policies, actions and cluster views;       *)
(*   SpecTrackerLocks  one ActionTracker called from two threads, lock     *)
(*                acquisition by lock acquisition;                         *)
(*   SpecEnroll   an EnrollmentManager called from two threads;            *)
(*   SpecSnapshot build_snapshot beside apply_to_state_machine, and        *)
(*                install_snapshot on a receiver;                          *)
(*   SpecRunTask  the task-runner loop, and run_task called directly;      *)
(*   SpecLockOrder  the tracker's two RwLocks taken by three threads, and  *)
(*                SpecLockOrderFair, the same with every thread running;   *)
(*   SpecHealth   the heartbeat loops beside a planner that marks nodes    *)
(*                degraded.                                                *)
(***************************************************************************)
EXTENDS Integers, Sequences, FiniteSets, TLC

VARIABLES
    now,        \* the wall clock, Utc::now()
    log,        \* the committed raft log: a sequence of ClusterCommand
    sm,         \* sm[n]: node n's SharedState (a HiveState)
    applied,    \* applied[n]: index of the last log entry node n has applied
    leader,     \* metrics.current_leader: a node id or "none"
    started,    \* started[n]: HiveDaemon::run of n has spawned its loops
    nextId,     \* number of uuids drawn so far (uuid::Uuid::new_v4)
    runner,     \* runner[n]: position of n's task-runner loop
    planner,    \* planner[n]: position of n's planner (deliberation) loop
    event,      \* what the last step did: the call that returned, and its result
    tracker,    \* tracker[n]: node n's ActionTracker (ledger and history)
    store,      \* one node's sled database and apply_to_state_machine position
    shutdown,   \* shutdown[n]: the value of n's shutdown watch channel
    heartbeat,  \* heartbeat[n]: position of n's heartbeat loop
    caller,     \* positions of the threads calling one ActionTracker
    snapshot,   \* the snapshot builder's position and the snapshot it built
    enroll      \* an EnrollmentManager's tokens and the enroll calls in progress

vars == <<now, log, sm, applied, leader, started, nextId, runner, planner, event, tracker,
         store, shutdown, heartbeat, caller, snapshot, enroll>>

smVars == <<now, log, sm, applied>>
clusterVars == <<leader, started, nextId, runner, planner, event, tracker>>
sideVars == <<shutdown, heartbeat, caller, snapshot, enroll>>

(***************************************************************************)
(* Bounds of the model.                                                    *)
(***************************************************************************)
MaxTime == 1
MaxLogSM == 2
MaxIds == 2
MaxLogStore == 2
MaxHistory == 1
MaxTracked == 2
MaxClock == 2

Nodes == {"n1", "n2"}
NoLeader == "none"

(***************************************************************************)
(* types.rs                                                                *)
(***************************************************************************)
NodeHealthValues == {"Healthy", "Degraded", "Unreachable", "Unknown"}

TaskStatusValues == {"Pending", "Scheduled", "Running", "Completed", "Failed", "Cancelled"}

PayloadKinds ==
    {"Echo", "SyncDirectory", "RunCommand", "CheckService", "RestartService", "DockerRun", "Custom"}

\* A path is the sequence of its characters.
EmptyPath == << >>
EtcNginx == <<"/", "e", "t", "c", "/", "n">>
HomeB == <<"/", "h", "o", "m", "e", "/", "b">>

Payload(kind, src, dst) == [kind |-> kind, src |-> src, dst |-> dst]

EchoPayload == Payload("Echo", EmptyPath, EmptyPath)

EmptyMap == [k \in {} |-> TRUE]

MapPut(m, k, v) == [x \in DOMAIN m \cup {k} |-> IF x = k THEN v ELSE m[x]]

MapRemove(m, k) == [x \in DOMAIN m \ {k} |-> m[x]]

\* NodeStatus. hostname and tags are set once by register_self and copied
\* verbatim by every command; metrics stands for (cpu, memory, disk)_usage.
NodeStatus(id, health, last_heartbeat, metrics) ==
    [node_id |-> id, health |-> health, last_heartbeat |-> last_heartbeat, metrics |-> metrics]

Task(id, target, payload, status, priority, created, updated, result) ==
    [id |-> id, target_node |-> target, payload |-> payload, status |-> status,
     priority |-> priority, created_at |-> created, updated_at |-> updated,
     result |-> result]

Attachment(id, node, kind, created) ==
    [id |-> id, node_id |-> node, kind |-> kind, created_at |-> created]

Goal(id, priority, active, created) ==
    [id |-> id, priority |-> priority, active |-> active, created_at |-> created]

\* ClusterCommand
RegisterNode(status) == [type |-> "RegisterNode", status |-> status]
UpdateNodeHealth(id, health, metrics) ==
    [type |-> "UpdateNodeHealth", node_id |-> id, health |-> health, metrics |-> metrics]
RemoveNode(id) == [type |-> "RemoveNode", node_id |-> id]
PutTask(task) == [type |-> "PutTask", task |-> task]
UpdateTaskStatus(id, status, result) ==
    [type |-> "UpdateTaskStatus", task_id |-> id, status |-> status, result |-> result]
PutAttachment(att) == [type |-> "PutAttachment", attachment |-> att]
RemoveAttachment(id) == [type |-> "RemoveAttachment", attachment_id |-> id]
PutGoal(goal) == [type |-> "PutGoal", goal |-> goal]
RemoveGoal(id) == [type |-> "RemoveGoal", goal_id |-> id]

(***************************************************************************)
(* replicator/state_machine.rs                                             *)
(***************************************************************************)
HiveStateNew ==
    [nodes |-> EmptyMap, tasks |-> EmptyMap, attachments |-> EmptyMap,
     goals |-> EmptyMap, last_applied_index |-> 0]

\* RegisterNode with the heartbeat stamped at apply time (as UpdateNodeHealth is).
ApplyRegisterNodeStamped(S, C, t) ==
    [S EXCEPT !.nodes = MapPut(S.nodes, C.status.node_id,
                               [C.status EXCEPT !.last_heartbeat = t])]

ApplyRegisterNode(S, C, t) ==
    [S EXCEPT !.nodes = MapPut(S.nodes, C.status.node_id, C.status)]

ApplyUpdateNodeHealthUpsert(S, C, t) ==
    [S EXCEPT !.nodes = MapPut(S.nodes, C.node_id,
                               NodeStatus(C.node_id, C.health, t, C.metrics))]

ApplyUpdateNodeHealth(S, C, t) ==
    IF C.node_id \in DOMAIN S.nodes
      THEN [S EXCEPT !.nodes[C.node_id] =
               [@ EXCEPT !.health = C.health, !.metrics = C.metrics,
                         !.last_heartbeat = t]]
      ELSE S

ApplyRemoveNode(S, C, t) ==
    [S EXCEPT !.nodes = MapRemove(S.nodes, C.node_id)]

ApplyPutTask(S, C, t) ==
    [S EXCEPT !.tasks = MapPut(S.tasks, C.task.id, C.task)]

ApplyUpdateTaskStatus(S, C, t) ==
    IF C.task_id \in DOMAIN S.tasks
      THEN [S EXCEPT !.tasks[C.task_id] =
               [@ EXCEPT !.status = C.status, !.result = C.result,
                         !.updated_at = t]]
      ELSE S

ApplyPutAttachment(S, C, t) ==
    [S EXCEPT !.attachments = MapPut(S.attachments, C.attachment.id, C.attachment)]

ApplyRemoveAttachment(S, C, t) ==
    [S EXCEPT !.attachments = MapRemove(S.attachments, C.attachment_id)]

ApplyPutGoal(S, C, t) ==
    [S EXCEPT !.goals = MapPut(S.goals, C.goal.id, C.goal)]

ApplyRemoveGoal(S, C, t) ==
    [S EXCEPT !.goals = MapRemove(S.goals, C.goal_id)]

\* HiveState::apply(command), run when the wall clock reads t.
Apply(S, C, t) ==
    CASE C.type = "RegisterNode" -> ApplyRegisterNode(S, C, t)
      [] C.type = "UpdateNodeHealth" -> ApplyUpdateNodeHealth(S, C, t)
      [] C.type = "RemoveNode" -> ApplyRemoveNode(S, C, t)
      [] C.type = "PutTask" -> ApplyPutTask(S, C, t)
      [] C.type = "UpdateTaskStatus" -> ApplyUpdateTaskStatus(S, C, t)
      [] C.type = "PutAttachment" -> ApplyPutAttachment(S, C, t)
      [] C.type = "RemoveAttachment" -> ApplyRemoveAttachment(S, C, t)
      [] C.type = "PutGoal" -> ApplyPutGoal(S, C, t)
      [] C.type = "RemoveGoal" -> ApplyRemoveGoal(S, C, t)

\* HiveState::to_cluster_view: the values of the four maps.
ToClusterView(S) ==
    [nodes |-> {S.nodes[k] : k \in DOMAIN S.nodes},
     tasks |-> {S.tasks[k] : k \in DOMAIN S.tasks},
     attachments |-> {S.attachments[k] : k \in DOMAIN S.attachments},
     goals |-> {S.goals[k] : k \in DOMAIN S.goals}]

(***************************************************************************)
(* executor/validator.rs                                                   *)
(***************************************************************************)
\* The ExecutionPolicy the daemons run with (config.policy); the path lists
\* are those of the tests' policy, the cap is lowered to 1.
Policy ==
    [allow_restart_services |-> FALSE,
     allow_docker |-> FALSE,
     allowed_sync_paths |-> {<<"/", "h", "o", "m", "e">>, <<"/", "d", "a", "t", "a">>},
     blocked_sync_paths |-> {<<"/", "e", "t", "c">>, <<"/", "v", "a", "r">>},
     max_concurrent_tasks_per_node |-> 1]

\* BrainAction
ScheduleTask(payload, target, priority) ==
    [kind |-> "ScheduleTask", task |-> payload, target_node |-> target, priority |-> priority]
RebalanceTask(id, to) == [kind |-> "RebalanceTask", task_id |-> id, to_node |-> to]
CancelTask(id) == [kind |-> "CancelTask", task_id |-> id]
UpdateGoalProgress(id) == [kind |-> "UpdateGoalProgress", goal_id |-> id]
CreateAttachment(node, kind) == [kind |-> "CreateAttachment", node_id |-> node, akind |-> kind]
RemoveAttachmentAction(id) == [kind |-> "RemoveAttachment", attachment_id |-> id]
MarkNodeDegraded(id) == [kind |-> "MarkNodeDegraded", node_id |-> id]
RequestHumanApproval == [kind |-> "RequestHumanApproval"]
NoOp == [kind |-> "NoOp"]

\* AttachmentKind: a kind name and, for Directory and File, its path.
AttKind(name, path) == [name |-> name, path |-> path]

\* str::starts_with
StartsWith(path, prefix) ==
    /\ Len(prefix) <= Len(path)
    /\ \A i \in 1..Len(prefix) : path[i] = prefix[i]

\* Each validate_* returns "ok" or the reason of its Err.
ValidateNodeExists(node_id, cluster) ==
    IF \E n \in cluster.nodes : n.node_id = node_id THEN "ok" ELSE "node not found"

\* validate_task_exists that finds every task.
ValidateTaskExistsAlways(task_id, cluster) == "ok"

ValidateTaskExists(task_id, cluster) ==
    IF \E t \in cluster.tasks : t.id = task_id THEN "ok" ELSE "task not found"

ValidateGoalExists(goal_id, cluster) ==
    IF \E g \in cluster.goals : g.id = goal_id THEN "ok" ELSE "goal not found"

ValidateAttachmentExists(attachment_id, cluster) ==
    IF \E a \in cluster.attachments : a.id = attachment_id THEN "ok" ELSE "attachment not found"

\* validate_path_allowed that looks at the allowed list first.
ValidatePathAllowedFirst(policy, path) ==
    IF \E p \in policy.allowed_sync_paths : StartsWith(path, p)
      THEN "ok"
      ELSE IF \E b \in policy.blocked_sync_paths : StartsWith(path, b)
             THEN "path is blocked"
             ELSE IF policy.allowed_sync_paths = {} THEN "ok"
                  ELSE "path not in allowed paths"

ValidatePathAllowed(policy, path) ==
    IF \E b \in policy.blocked_sync_paths : StartsWith(path, b)
      THEN "path is blocked"
      ELSE IF \/ policy.allowed_sync_paths = {}
              \/ \E p \in policy.allowed_sync_paths : StartsWith(path, p)
             THEN "ok"
             ELSE "path not in allowed paths"

\* validate_task_policy that lets RunCommand through when restarts are allowed.
ValidateTaskPolicyLenient(policy, payload) ==
    CASE payload.kind \in {"Echo", "CheckService", "DockerRun", "RestartService"} -> "ok"
      [] payload.kind = "RunCommand" ->
           IF policy.allow_restart_services THEN "ok"
           ELSE "arbitrary command execution not allowed"
      [] OTHER -> "custom tool not pre-approved"

ValidateTaskPolicy(policy, payload) ==
    CASE payload.kind \in {"Echo", "CheckService"} -> "ok"
      [] payload.kind = "RestartService" ->
           IF ~policy.allow_restart_services THEN "service restart not allowed" ELSE "ok"
      [] payload.kind = "DockerRun" ->
           IF ~policy.allow_docker THEN "Docker execution not allowed" ELSE "ok"
      [] payload.kind = "SyncDirectory" ->
           IF ValidatePathAllowed(policy, payload.src) # "ok"
             THEN ValidatePathAllowed(policy, payload.src)
             ELSE ValidatePathAllowed(policy, payload.dst)
      [] payload.kind = "RunCommand" -> "arbitrary command execution not allowed"
      [] payload.kind = "Custom" -> "custom tool not pre-approved"

ValidateAttachmentKind(policy, akind) ==
    CASE akind.name \in {"Directory", "File"} -> ValidatePathAllowed(policy, akind.path)
      [] akind.name = "DockerContainer" ->
           IF ~policy.allow_docker THEN "Docker attachments not allowed" ELSE "ok"
      [] akind.name \in {"Service", "Webhook", "Custom"} -> "ok"

ActiveTasks(node_id, cluster) ==
    {t \in cluster.tasks : t.target_node = node_id /\ t.status \in {"Pending", "Running"}}

ValidateTaskLimit(policy, node_id, cluster) ==
    IF Cardinality(ActiveTasks(node_id, cluster)) >= policy.max_concurrent_tasks_per_node
      THEN "too many active tasks"
      ELSE "ok"

\* a?; b?; c? : the first Err, or ok.
FirstErr(results) ==
    IF \E i \in 1..Len(results) : results[i] # "ok"
      THEN results[CHOOSE i \in 1..Len(results) :
                     /\ results[i] # "ok"
                     /\ \A j \in 1..(i - 1) : results[j] = "ok"]
      ELSE "ok"

\* ActionValidator::validate
Validate(policy, action, cluster) ==
    CASE action.kind = "ScheduleTask" ->
           FirstErr(<<ValidateNodeExists(action.target_node, cluster),
                      ValidateTaskPolicy(policy, action.task),
                      ValidateTaskLimit(policy, action.target_node, cluster)>>)
      [] action.kind = "RebalanceTask" ->
           FirstErr(<<ValidateNodeExists(action.to_node, cluster),
                      ValidateTaskExists(action.task_id, cluster)>>)
      [] action.kind = "CancelTask" -> ValidateTaskExists(action.task_id, cluster)
      [] action.kind = "MarkNodeDegraded" -> ValidateNodeExists(action.node_id, cluster)
      [] action.kind = "CreateAttachment" ->
           FirstErr(<<ValidateNodeExists(action.node_id, cluster),
                      ValidateAttachmentKind(policy, action.akind)>>)
      [] action.kind = "RemoveAttachment" ->
           ValidateAttachmentExists(action.attachment_id, cluster)
      [] action.kind = "UpdateGoalProgress" -> ValidateGoalExists(action.goal_id, cluster)
      [] action.kind \in {"RequestHumanApproval", "NoOp"} -> "ok"

(***************************************************************************)
(* brain/tracker.rs                                                        *)
(***************************************************************************)
\* ActionTracker::new's settings. max_history is scaled down from 1000; the
\* clock counts in units of action_timeout (5 minutes).
TrackerConfig == [max_history |-> MaxHistory, max_retries |-> 3, action_timeout |-> 1]

NoResult == [kind |-> "None"]

\* ActionResult; completed_at, which nothing reads, is left out.
ActionResult(success, message, completed_at) ==
    [kind |-> "Some", success |-> success, message |-> message]

TrackedAction(id, action, proposed_at, status, result, retry_count) ==
    [id |-> id, action |-> action, proposed_at |-> proposed_at, status |-> status,
     result |-> result, retry_count |-> retry_count]

\* The k-th uuid a tracker draws in track_action.
ActionId(k) == <<"a1", "a2", "a3", "a4", "a5", "a6">>[k]

\* ActionTracker::new; drawn counts the uuids track_action has drawn.
TrackerNew == [actions |-> EmptyMap, action_history |-> << >>, drawn |-> 0]

TrackAction(T, action, t) ==
    LET id == ActionId(T.drawn + 1)
    IN  [T EXCEPT !.actions = MapPut(@, id, TrackedAction(id, action, t, "Proposed",
                                                          NoResult, 0)),
                  !.drawn = @ + 1]

MarkExecuting(T, id) ==
    IF id \in DOMAIN T.actions
      THEN [T EXCEPT !.actions = MapPut(@, id, [T.actions[id] EXCEPT !.status = "Executing"])]
      ELSE T

\* A history that drops its newest entries when it is too long.
TrimHistoryNewest(h) ==
    IF Len(h) > TrackerConfig.max_history THEN SubSeq(h, 1, TrackerConfig.max_history) ELSE h

\* history.push(action), then remove(0) while the history is too long.
RECURSIVE TrimHistory(_)
TrimHistory(h) ==
    IF Len(h) > TrackerConfig.max_history THEN TrimHistory(Tail(h)) ELSE h

AddToHistory(T, tracked) ==
    [T EXCEPT !.action_history = TrimHistory(Append(@, tracked))]

\* mark_completed that sets the status where the action is, in the ledger.
MarkCompletedInPlace(T, id, message, t) ==
    IF id \in DOMAIN T.actions
      THEN [T EXCEPT !.actions[id] =
              [@ EXCEPT !.status = "Completed", !.result = ActionResult(TRUE, message, t)]]
      ELSE T

MarkCompleted(T, id, message, t) ==
    IF id \in DOMAIN T.actions
      THEN AddToHistory([T EXCEPT !.actions = MapRemove(@, id)],
                        [T.actions[id] EXCEPT !.status = "Completed",
                                              !.result = ActionResult(TRUE, message, t)])
      ELSE T

\* mark_failed that reports should_retry for every known id.
MarkFailedReturnsKnown(T, id) == id \in DOMAIN T.actions

\* The value mark_failed returns (should_retry).
MarkFailedReturns(T, id) ==
    /\ id \in DOMAIN T.actions
    /\ T.actions[id].retry_count + 1 < TrackerConfig.max_retries

\* mark_failed that leaves the status of a retried action as it was.
MarkFailedNoReset(T, id, message, t) ==
    IF id \notin DOMAIN T.actions THEN T
    ELSE LET action == [T.actions[id] EXCEPT !.retry_count = @ + 1]
         IN  IF action.retry_count >= TrackerConfig.max_retries
               THEN [T EXCEPT !.actions = MapRemove(@, id),
                              !.action_history =
                                  Append(@, [action EXCEPT !.status = "Failed"])]
               ELSE [T EXCEPT !.actions = MapPut(@, id, action)]

\* mark_failed that retries without limit: the action stays in the ledger.
MarkFailedRetriesForever(T, id, message, t) ==
    IF id \notin DOMAIN T.actions THEN T
    ELSE [T EXCEPT !.actions[id] =
            [@ EXCEPT !.retry_count = @ + 1, !.status = "Proposed"]]

\* The tracker after mark_failed.
MarkFailed(T, id, message, t) ==
    IF id \notin DOMAIN T.actions THEN T
    ELSE LET action == [T.actions[id] EXCEPT !.retry_count = @ + 1]
         IN  IF action.retry_count >= TrackerConfig.max_retries
               THEN AddToHistory([T EXCEPT !.actions = MapRemove(@, id)],
                                 [action EXCEPT !.status = "Failed",
                                                !.result = ActionResult(FALSE, message, t)])
               ELSE [T EXCEPT !.actions = MapPut(@, id, [action EXCEPT !.status = "Proposed"])]

\* cleanup_stale's filter.
StaleIdsAny(T, t) == DOMAIN T.actions

StaleIds(T, t) ==
    {id \in DOMAIN T.actions :
        /\ T.actions[id].status = "Executing"
        /\ t - T.actions[id].proposed_at > TrackerConfig.action_timeout}

\* cleanup_stale's loop over ids, a set of stale ids, in each order a HashMap
\* may iterate them: the trackers it can end with.
RECURSIVE CleanupLoop(_, _, _)
CleanupLoop(T, ids, t) ==
    IF ids = {} THEN {T}
    ELSE UNION {CleanupLoop(
                    AddToHistory([T EXCEPT !.actions = MapRemove(@, id)],
                                 [T.actions[id] EXCEPT
                                     !.status = "Failed",
                                     !.result = ActionResult(FALSE, "Timeout", t)]),
                    ids \ {id}, t) : id \in ids}

CleanupStale(T, t) == CleanupLoop(T, StaleIds(T, t), t)

\* get_recent_failures(limit): the Failed entries of the history, latest first.
GetRecentFailures(T, limit) ==
    LET IsFailed(x) == x.status = "Failed"
        failed == SelectSeq(T.action_history, IsFailed)
        n == IF Len(failed) < limit THEN Len(failed) ELSE limit
    IN  [i \in 1..n |-> failed[Len(failed) - i + 1]]

\* Similarity as equality of the two actions.
IsSimilarActionExact(a, b) == a = b

IsSimilarAction(a, b) ==
    CASE a.kind = "ScheduleTask" /\ b.kind = "ScheduleTask" ->
           a.target_node = b.target_node /\ a.task.kind = b.task.kind
      [] a.kind = "RebalanceTask" /\ b.kind = "RebalanceTask" -> a.task_id = b.task_id
      [] a.kind = "CancelTask" /\ b.kind = "CancelTask" -> a.task_id = b.task_id
      [] a.kind = "MarkNodeDegraded" /\ b.kind = "MarkNodeDegraded" -> a.node_id = b.node_id
      [] OTHER -> FALSE

\* has_similar_pending that finds nothing.
HasSimilarPendingNever(T, action) == FALSE

HasSimilarPending(T, action) ==
    \E id \in DOMAIN T.actions : IsSimilarAction(T.actions[id].action, action)

GetStats(T) ==
    LET count(status) == Cardinality({id \in DOMAIN T.actions : T.actions[id].status = status})
        hist(status) ==
            Cardinality({i \in 1..Len(T.action_history) : T.action_history[i].status = status})
    IN  [pending |-> count("Proposed"), executing |-> count("Executing"),
         completed |-> hist("Completed"), failed |-> hist("Failed"),
         history_size |-> Len(T.action_history)]

(***************************************************************************)
(* Values of the variables a specification does not use.                   *)
(***************************************************************************)
NoTask == [id |-> "none"]
NoAction == [kind |-> "none"]
NoCommand == [type |-> "none"]
RunnerIdle == [pc |-> "idle", queue |-> {}, task |-> NoTask]
PlannerIdle == [pc |-> "idle"]
NoEvent == [origin |-> "none"]
StoreUnused == [pc |-> "unused"]
HeartbeatIdle == [pc |-> "idle", last |-> "none"]
CallerUnused == [pc |-> "unused"]
SnapshotUnused == [pc |-> "unused"]
EnrollUnused == [pc |-> "unused"]

SideUnused ==
    /\ shutdown = [n \in Nodes |-> FALSE]
    /\ heartbeat = [n \in Nodes |-> HeartbeatIdle]
    /\ caller = CallerUnused
    /\ snapshot = SnapshotUnused
    /\ enroll = EnrollUnused

ClusterUnused ==
    /\ leader = NoLeader
    /\ started = [n \in Nodes |-> FALSE]
    /\ nextId = 0
    /\ runner = [n \in Nodes |-> RunnerIdle]
    /\ planner = [n \in Nodes |-> PlannerIdle]
    /\ event = NoEvent
    /\ tracker = [n \in Nodes |-> TrackerNew]

(***************************************************************************)
(* SpecSM: the state machine under arbitrary committed commands.           *)
(* Each replica applies the committed log in order, at its own pace, and   *)
(* HiveState::apply reads the replica's wall clock when it runs.           *)
(***************************************************************************)
\* The commands a proposer may build when its clock reads t.
SMCommands(t) ==
    {RegisterNode(NodeStatus("n1", "Healthy", t, 0)),
     UpdateNodeHealth("n1", "Healthy", 1),
     UpdateNodeHealth("n1", "Degraded", 0),
     RemoveNode("n1"),
     PutTask(Task("t1", "n1", EchoPayload, "Pending", 5, t, t, "None")),
     PutTask(Task("t1", "n2", EchoPayload, "Completed", 5, t, t, "Some")),
     UpdateTaskStatus("t1", "Running", "None"),
     UpdateTaskStatus("t1", "Completed", "Some"),
     PutAttachment(Attachment("a1", "n1", AttKind("Service", EmptyPath), t)),
     RemoveAttachment("a1"),
     PutGoal(Goal("g1", 5, TRUE, t)),
     RemoveGoal("g1")}

InitSM ==
    /\ now = 0
    /\ log = << >>
    /\ sm = [n \in Nodes |-> HiveStateNew]
    /\ applied = [n \in Nodes |-> 0]
    /\ ClusterUnused
    /\ SideUnused
    /\ store = StoreUnused

\* A command is committed (RaftReplicator::apply on the leader succeeded).
SMCommit(c) ==
    /\ Len(log) < MaxLogSM
    /\ log' = Append(log, c)
    /\ UNCHANGED <<now, sm, applied, clusterVars, store, sideVars>>

\* SharedState::apply: replica n applies its next committed entry now.
SMReplicaApply(n) ==
    /\ applied[n] < Len(log)
    /\ sm' = [sm EXCEPT ![n] = Apply(sm[n], log[applied[n] + 1], now)]
    /\ applied' = [applied EXCEPT ![n] = applied[n] + 1]
    /\ UNCHANGED <<now, log, clusterVars, store, sideVars>>

\* The wall clock advances.
Tick ==
    /\ now < MaxTime
    /\ now' = now + 1
    /\ UNCHANGED <<log, sm, applied, clusterVars, store, sideVars>>

NextSM ==
    \/ \E c \in SMCommands(now) : SMCommit(c)
    \/ \E n \in Nodes : SMReplicaApply(n)
    \/ Tick

SpecSM == InitSM /\ [][NextSM]_vars

(***************************************************************************)
(* Spec: the cluster. replicator/raft_node.rs, daemon.rs, executor/mod.rs, *)
(* api.rs.                                                                 *)
(*                                                                         *)
(* An entry is committed and applied on every node in one step, and the    *)
(* log is not kept: a loop that reads a lagging node's snapshot behaves as *)
(* one that read the same snapshot earlier and was scheduled late, which   *)
(* the interleaving of the loops' steps already covers (SpecSM has the     *)
(* replicas applying at their own pace).  The wall clock stands still.     *)
(***************************************************************************)
\* uuid::Uuid::new_v4(): the k-th uuid drawn; never drawn twice.
Uuid(k) == <<"u1", "u2", "u3", "u4", "u5", "u6">>[k]

\* RaftReplicator::is_leader
IsLeader(n) == leader = n

\* RaftReplicator::snapshot on node n
Snapshot(n) == ToClusterView(sm[n])

\* client_write that accepts a write on whatever node receives it.
CanWriteAnyNode(n) == TRUE

\* raft.client_write accepts a write on node n: only the leader appends.
CanWrite(n) == IsLeader(n)

\* The record of a step of a call: who called, on which node, the command the
\* step committed (NoCommand: none), what validate had returned to the caller
\* ("none": it did not call validate), the call's result ("pending": it has
\* not returned), the HTTP status of the response (0: not an HTTP call) and the
\* uuid the call drew.
Event(origin, n, cmd, validated, result, status, id) ==
    [origin |-> origin, node |-> n, cmd |-> cmd, validated |-> validated,
     result |-> result, status |-> status, id |-> id, action |-> NoAction]

\* The same for a step of execute(action).
ExecuteEvent(n, a, cmd, validated, result) ==
    [Event("execute", n, cmd, validated, result, 0, "none") EXCEPT !.action = a]

\* RaftReplicator::apply(command) on node n returning Ok: the entry is
\* appended, committed and applied.
ReplicatorApply(n, c) ==
    /\ CanWrite(n)
    /\ sm' = [m \in Nodes |-> Apply(sm[m], c, now)]
    /\ UNCHANGED <<now, log, applied>>

\* RaftReplicator::apply(command) on node n returning Err: nothing is written.
ReplicatorApplyErr(n) ==
    /\ ~CanWrite(n)
    /\ UNCHANGED smVars

Init ==
    /\ now = 0
    /\ log = << >>
    /\ sm = [n \in Nodes |-> HiveStateNew]
    /\ applied = [n \in Nodes |-> 0]
    /\ leader = NoLeader
    /\ started = [n \in Nodes |-> FALSE]
    /\ nextId = 0
    /\ runner = [n \in Nodes |-> RunnerIdle]
    /\ planner = [n \in Nodes |-> PlannerIdle]
    /\ event = NoEvent
    /\ tracker = [n \in Nodes |-> TrackerNew]
    /\ store = StoreUnused
    /\ SideUnused

\* Node n wins an election.
BecomeLeader(n) ==
    /\ leader # n
    /\ leader' = n
    /\ event' = NoEvent
    /\ UNCHANGED <<smVars, started, nextId, runner, planner, store, sideVars, tracker>>

\* HiveDaemon::run up to the spawning of the loops: register_self succeeds, or
\* it fails (on a non-leader) and run returns its error.
DaemonStart(n) ==
    /\ ~started[n]
    /\ LET c == RegisterNode(NodeStatus(n, "Healthy", now, 0))
       IN  \/ /\ ReplicatorApply(n, c)
              /\ started' = [started EXCEPT ![n] = TRUE]
              /\ event' = Event("register_self", n, c, "none", "ok", 0, "none")
           \/ /\ ReplicatorApplyErr(n)
              /\ UNCHANGED started
              /\ event' = Event("register_self", n, NoCommand, "none", "write failed",
                                0, "none")
    /\ UNCHANGED <<leader, nextId, runner, planner, store, sideVars, tracker>>

\* One tick of the heartbeat loop; a failed apply is logged.
Heartbeat(n) ==
    /\ started[n]
    /\ LET c == UpdateNodeHealth(n, "Healthy", 0)
       IN  \/ /\ ReplicatorApply(n, c)
              /\ event' = Event("heartbeat", n, c, "none", "ok", 0, "none")
           \/ /\ ReplicatorApplyErr(n)
              /\ event' = Event("heartbeat", n, NoCommand, "none", "write failed", 0, "none")
    /\ UNCHANGED <<leader, started, nextId, runner, planner, store, sideVars, tracker>>

\* The payloads the model's clients post.
SubmitPayloads == {Payload("RunCommand", EmptyPath, EmptyPath)}

\* POST /tasks on node n (api.rs submit_task).
SubmitTask(n, target, payload) ==
    /\ nextId < MaxIds
    /\ nextId' = nextId + 1
    /\ LET id == Uuid(nextId + 1)
           c == PutTask(Task(id, target, payload, "Pending", 5, now, now, "None"))
       IN  \/ /\ ReplicatorApply(n, c)
              /\ event' = Event("submit_task", n, c, "none", "ok", 201, id)
           \/ /\ ReplicatorApplyErr(n)
              /\ event' = Event("submit_task", n, NoCommand, "none", "write failed", 500, id)
    /\ UNCHANGED <<leader, started, runner, planner, store, sideVars, tracker>>

\* POST /goals on node n (api.rs add_goal).
AddGoal(n) ==
    /\ nextId < MaxIds
    /\ nextId' = nextId + 1
    /\ LET id == Uuid(nextId + 1)
           c == PutGoal(Goal(id, 5, TRUE, now))
       IN  \/ /\ ReplicatorApply(n, c)
              /\ event' = Event("add_goal", n, c, "none", "ok", 201, id)
           \/ /\ ReplicatorApplyErr(n)
              /\ event' = Event("add_goal", n, NoCommand, "none", "write failed", 500, id)
    /\ UNCHANGED <<leader, started, runner, planner, store, sideVars, tracker>>

(***************************************************************************)
(* The task-runner loop (daemon.rs) and HiveExecutor::run_task.            *)
(***************************************************************************)
\* The loop is at its tokio::select!, where ticker.tick() is polled: the body
\* of the previous tick has run to its end.
RunnerAtSelectAlways(n) == TRUE

RunnerAtSelect(n) == runner[n].pc = "idle"

\* A tick: take a snapshot and collect this node's Pending tasks.
RunnerTick(n) ==
    /\ started[n]
    /\ RunnerAtSelect(n)
    /\ LET mine == {t \in Snapshot(n).tasks :
                       t.target_node = n /\ t.status = "Pending"}
       IN  /\ mine # {}
           /\ runner' = [runner EXCEPT ![n] = [pc |-> "loop", queue |-> mine,
                                               task |-> NoTask]]
    /\ event' = NoEvent
    /\ UNCHANGED <<smVars, leader, started, nextId, planner, store, sideVars, tracker>>

\* What the loop does after run_task(t) returned.
RunnerAfter(n, t) ==
    LET rest == runner[n].queue \ {t}
    IN  [pc |-> IF rest = {} THEN "idle" ELSE "loop", queue |-> rest, task |-> NoTask]

\* run_task's test of the task's target.
RunTaskAdmitsAny(n, t) == TRUE

RunTaskAdmits(n, t) == t.target_node = n

\* run_task(task) up to its first apply: it bails out for a task of another
\* node; otherwise the task is marked Running, or the apply fails and
\* run_task returns the error.
RunTaskBegin(n, t) ==
    /\ runner[n].pc = "loop"
    /\ t \in runner[n].queue
    /\ LET c == UpdateTaskStatus(t.id, "Running", "None")
       IN  IF ~RunTaskAdmits(n, t)
             THEN /\ runner' = [runner EXCEPT ![n] = RunnerAfter(n, t)]
                  /\ event' = Event("run_task", n, NoCommand, "none", "wrong node", 0, "none")
                  /\ UNCHANGED smVars
             ELSE \/ /\ ReplicatorApply(n, c)
                     /\ runner' = [runner EXCEPT ![n] = [@ EXCEPT !.pc = "exec", !.task = t]]
                     /\ event' = Event("run_task", n, c, "none", "pending", 0, "none")
                  \/ /\ ReplicatorApplyErr(n)
                     /\ runner' = [runner EXCEPT ![n] = RunnerAfter(n, t)]
                     /\ event' = Event("run_task", n, NoCommand, "none", "write failed",
                                       0, "none")
    /\ UNCHANGED <<leader, started, nextId, planner, store, sideVars, tracker>>

\* TaskRunner::run(payload): Ok or Err. Echo succeeds, RunCommand and Custom
\* are refused, the others depend on the child process.
RunnerOutcomes(payload) ==
    CASE payload.kind = "Echo" -> {"Completed"}
      [] payload.kind \in {"RunCommand", "Custom"} -> {"Failed"}
      [] OTHER -> {"Completed", "Failed"}

\* run_task(task) from the payload's run to its end: the result is applied, or
\* the apply fails and the task is left Running.
RunTaskEnd(n, status) ==
    /\ runner[n].pc = "exec"
    /\ status \in RunnerOutcomes(runner[n].task.payload)
    /\ LET c == UpdateTaskStatus(runner[n].task.id, status,
                                 IF status = "Completed" THEN "Some" ELSE "None")
       IN  \/ /\ ReplicatorApply(n, c)
              /\ event' = Event("run_task", n, c, "none", "ok", 0, "none")
           \/ /\ ReplicatorApplyErr(n)
              /\ event' = Event("run_task", n, NoCommand, "none", "write failed", 0, "none")
    /\ runner' = [runner EXCEPT ![n] = RunnerAfter(n, runner[n].task)]
    /\ UNCHANGED <<leader, started, nextId, planner, store, sideVars, tracker>>

(***************************************************************************)
(* The planner loop (daemon.rs) and HiveExecutor::execute.                 *)
(***************************************************************************)
\* A tick on the leader with at least one goal: brain.plan is called.
PlannerTick(n) ==
    /\ started[n]
    /\ planner[n].pc = "idle"
    /\ IsLeader(n)
    /\ Snapshot(n).goals # {}
    /\ planner' = [planner EXCEPT ![n] = [PlannerIdle EXCEPT !.pc = "planning"]]
    /\ event' = NoEvent
    /\ UNCHANGED <<smVars, leader, started, nextId, runner, store, sideVars, tracker>>

\* The actions the oracle may return, given what node n's snapshot shows.
PlanActions(n) ==
    LET ids == {t.id : t \in Snapshot(n).tasks}
    IN  {ScheduleTask(EchoPayload, t, 5) : t \in Nodes}
          \cup {ScheduleTask(Payload("SyncDirectory", EtcNginx, HomeB), "n1", 5)}
          \cup {CancelTask(i) : i \in ids}
          \cup {RebalanceTask(i, t) : i \in ids, t \in Nodes}
          \cup {NoOp}

\* execute's match on the action: the command it hands to replicator.apply,
\* or NoCommand when the arm applies nothing. id is the uuid the arm draws.
ExecuteCommand(n, a, id) ==
    CASE a.kind = "ScheduleTask" ->
           PutTask(Task(id, a.target_node, a.task, "Pending", a.priority, now, now, "None"))
      [] a.kind = "CancelTask" -> UpdateTaskStatus(a.task_id, "Cancelled", "None")
      [] a.kind = "RebalanceTask" ->
           IF \E t \in Snapshot(n).tasks : t.id = a.task_id
             THEN LET task == CHOOSE t \in Snapshot(n).tasks : t.id = a.task_id
                  IN  PutTask([task EXCEPT !.target_node = a.to_node,
                                           !.status = "Pending",
                                           !.updated_at = now])
             ELSE NoCommand
      [] a.kind = "MarkNodeDegraded" -> UpdateNodeHealth(a.node_id, "Degraded", 0)
      [] a.kind = "CreateAttachment" ->
           PutAttachment(Attachment(id, a.node_id, a.akind, now))
      [] a.kind = "RemoveAttachment" -> RemoveAttachment(a.attachment_id)
      [] OTHER -> NoCommand

DrawsUuid(a) == a.kind \in {"ScheduleTask", "CreateAttachment"}

\* execute that goes on to its match whatever validate returned.
ExecuteVerdictIgnored(n, a) == "ok"

\* execute's first statement: validate(action, snapshot)?
ExecuteVerdict(n, a) == Validate(Policy, a, Snapshot(n))

\* execute(action) for the next action of the plan: validate rejects and
\* execute returns the error; or the arm applies nothing; or the arm's command
\* is handed to replicator.apply, whose result execute returns.
Execute(n, a) ==
    /\ planner[n].pc = "planning"
    /\ LET v == ExecuteVerdict(n, a)
           c == ExecuteCommand(n, a, Uuid(nextId + 1))
       IN  IF v # "ok"
             THEN /\ event' = ExecuteEvent(n, a, NoCommand, v, v)
                  /\ UNCHANGED <<smVars, nextId>>
             ELSE /\ DrawsUuid(a) => nextId < MaxIds
                  /\ nextId' = IF DrawsUuid(a) THEN nextId + 1 ELSE nextId
                  /\ IF c = NoCommand
                       THEN /\ event' = ExecuteEvent(n, a, NoCommand, v, "ok")
                            /\ UNCHANGED smVars
                       ELSE \/ /\ ReplicatorApply(n, c)
                               /\ event' = ExecuteEvent(n, a, c, v, "ok")
                            \/ /\ ReplicatorApplyErr(n)
                               /\ event' = ExecuteEvent(n, a, NoCommand, v,
                                                        "write failed")
    /\ UNCHANGED <<leader, started, runner, planner, store, sideVars, tracker>>

\* The plan's actions are exhausted: the loop waits for its next tick.
PlannerDone(n) ==
    /\ planner[n].pc = "planning"
    /\ planner' = [planner EXCEPT ![n] = PlannerIdle]
    /\ event' = NoEvent
    /\ UNCHANGED <<smVars, leader, started, nextId, runner, store, sideVars, tracker>>

Next ==
    \/ \E n \in Nodes : BecomeLeader(n)
    \/ \E n \in Nodes : DaemonStart(n)
    \/ \E n \in Nodes : Heartbeat(n)
    \/ \E n \in Nodes : \E target \in Nodes : \E payload \in SubmitPayloads :
         SubmitTask(n, target, payload)
    \/ \E n \in Nodes : AddGoal(n)
    \/ \E n \in Nodes : RunnerTick(n)
    \/ \E n \in Nodes : \E t \in runner[n].queue : RunTaskBegin(n, t)
    \/ \E n \in Nodes : \E status \in {"Completed", "Failed"} : RunTaskEnd(n, status)
    \/ \E n \in Nodes : PlannerTick(n)
    \/ \E n \in Nodes : \E a \in PlanActions(n) : Execute(n, a)
    \/ \E n \in Nodes : PlannerDone(n)

Spec == Init /\ [][Next]_vars

\* Executor::run_task called on node n by a caller other than the loop, with
\* any task of n's snapshot.
RunTaskCall(n, t) ==
    /\ started[n]
    /\ runner[n].pc = "idle"
    /\ t \in Snapshot(n).tasks
    /\ runner' = [runner EXCEPT ![n] = [pc |-> "loop", queue |-> {t}, task |-> NoTask]]
    /\ event' = Event("run_task_call", n, NoCommand, "none", "pending", 0, "none")
    /\ UNCHANGED <<smVars, leader, started, nextId, planner, store, sideVars, tracker>>

\* The daemons' task runners and the clients posting tasks, without the
\* heartbeat and planner loops.
NextRunTask ==
    \/ \E n \in Nodes : BecomeLeader(n)
    \/ \E n \in Nodes : DaemonStart(n)
    \/ \E n \in Nodes : \E target \in Nodes : \E payload \in SubmitPayloads :
         SubmitTask(n, target, payload)
    \/ \E n \in Nodes : RunnerTick(n)
    \/ \E n \in Nodes : \E t \in runner[n].queue : RunTaskBegin(n, t)
    \/ \E n \in Nodes : \E status \in {"Completed", "Failed"} : RunTaskEnd(n, status)
    \/ \E n \in Nodes : \E t \in Snapshot(n).tasks : RunTaskCall(n, t)

SpecRunTask == Init /\ [][NextRunTask]_vars

\* The plans of a brain that watches the nodes' health.
HealthPlanActions == {MarkNodeDegraded(n) : n \in Nodes} \cup {NoOp}

\* The daemons' heartbeat and planner loops, without tasks.
NextHealth ==
    \/ \E n \in Nodes : BecomeLeader(n)
    \/ \E n \in Nodes : DaemonStart(n)
    \/ \E n \in Nodes : Heartbeat(n)
    \/ \E n \in Nodes : AddGoal(n)
    \/ \E n \in Nodes : PlannerTick(n)
    \/ \E n \in Nodes : \E a \in HealthPlanActions : Execute(n, a)
    \/ \E n \in Nodes : PlannerDone(n)

SpecHealth == Init /\ [][NextHealth]_vars

\* The task-runner loop's ticker fires again and again, and a run_task under
\* way goes on to its end.
RunnerFairness ==
    \A n \in Nodes :
      /\ WF_vars(RunnerTick(n))
      /\ WF_vars(\E t \in runner[n].queue : RunTaskBegin(n, t))
      /\ WF_vars(\E status \in {"Completed", "Failed"} : RunTaskEnd(n, status))

SpecFair == Spec /\ RunnerFairness

(***************************************************************************)
(* SpecShutdown: the daemons of Spec with their three loops followed       *)
(* through tokio::select! and with HiveDaemon::shutdown.  A loop is at its *)
(* select ("idle"), inside the body of a tick, or has left its loop        *)
(* ("stopped").  The heartbeat's apply is a step of its own.               *)
(***************************************************************************)
\* shutdown_rx.changed() is ready on node n: the value sent by shutdown()
\* has not been seen by the loop's receiver.
ShutdownObservedNever(n) == FALSE

ShutdownObserved(n) == shutdown[n]

\* HiveDaemon::shutdown on node n.
Shutdown(n) ==
    /\ ~shutdown[n]
    /\ shutdown' = [shutdown EXCEPT ![n] = TRUE]
    /\ UNCHANGED <<smVars, clusterVars, store, heartbeat, caller, snapshot, enroll>>

\* Heartbeat loop, ticker.tick() branch up to the apply: the metrics are
\* collected and UpdateNodeHealth is submitted.
HeartbeatTick(n) ==
    /\ started[n]
    /\ heartbeat[n].pc = "idle"
    /\ heartbeat' = [heartbeat EXCEPT ![n] =
                       [pc |-> "apply", last |-> heartbeat[n].last]]
    /\ UNCHANGED <<smVars, clusterVars, store, shutdown, caller, snapshot, enroll>>

\* Where the heartbeat loop goes after a submission that was Ok or failed.
HeartbeatAfterFatal(result) ==
    [pc |-> IF result = "failed" THEN "stopped" ELSE "idle", last |-> result]

HeartbeatAfter(result) == [pc |-> "idle", last |-> result]

\* Heartbeat loop, the apply returns: Ok, or Err which is logged.
HeartbeatApply(n) ==
    /\ heartbeat[n].pc = "apply"
    /\ LET c == UpdateNodeHealth(n, "Healthy", 0)
       IN  \/ /\ ReplicatorApply(n, c)
              /\ event' = Event("heartbeat", n, c, "none", "ok", 0, "none")
              /\ heartbeat' = [heartbeat EXCEPT ![n] = HeartbeatAfter("ok")]
           \/ /\ ReplicatorApplyErr(n)
              /\ event' = Event("heartbeat", n, NoCommand, "none", "write failed", 0, "none")
              /\ heartbeat' = [heartbeat EXCEPT ![n] = HeartbeatAfter("failed")]
    /\ UNCHANGED <<leader, started, nextId, runner, planner, tracker, store,
                   shutdown, caller, snapshot, enroll>>

\* Heartbeat loop, shutdown_rx.changed() branch: break.
HeartbeatStop(n) ==
    /\ started[n]
    /\ heartbeat[n].pc = "idle"
    /\ ShutdownObserved(n)
    /\ heartbeat' = [heartbeat EXCEPT ![n] = [pc |-> "stopped", last |-> @.last]]
    /\ UNCHANGED <<smVars, clusterVars, store, shutdown, caller, snapshot, enroll>>

\* Task-runner loop, shutdown_rx.changed() branch: break.
RunnerStop(n) ==
    /\ started[n]
    /\ runner[n].pc = "idle"
    /\ ShutdownObserved(n)
    /\ runner' = [runner EXCEPT ![n] = [RunnerIdle EXCEPT !.pc = "stopped"]]
    /\ UNCHANGED <<smVars, leader, started, nextId, planner, event, tracker, store, sideVars>>

\* Planner loop, shutdown_rx.changed() branch: break.
PlannerStop(n) ==
    /\ started[n]
    /\ planner[n].pc = "idle"
    /\ ShutdownObserved(n)
    /\ planner' = [planner EXCEPT ![n] = [PlannerIdle EXCEPT !.pc = "stopped"]]
    /\ UNCHANGED <<smVars, leader, started, nextId, runner, event, tracker, store, sideVars>>

\* The daemon whose loops are followed; the other node takes part in the
\* elections and receives writes.
TheDaemon == "n1"

\* The actions the oracle returns to the daemon.
ShutdownPlanActions == {ScheduleTask(EchoPayload, TheDaemon, 5), NoOp}

NextShutdown ==
    \/ \E n \in Nodes : BecomeLeader(n)
    \/ DaemonStart(TheDaemon)
    \/ \E n \in Nodes : \E payload \in SubmitPayloads : SubmitTask(n, TheDaemon, payload)
    \/ \E n \in Nodes : AddGoal(n)
    \/ HeartbeatTick(TheDaemon)
    \/ HeartbeatApply(TheDaemon)
    \/ RunnerTick(TheDaemon)
    \/ \E t \in runner[TheDaemon].queue : RunTaskBegin(TheDaemon, t)
    \/ \E status \in {"Completed", "Failed"} : RunTaskEnd(TheDaemon, status)
    \/ PlannerTick(TheDaemon)
    \/ \E a \in ShutdownPlanActions : Execute(TheDaemon, a)
    \/ PlannerDone(TheDaemon)
    \/ Shutdown(TheDaemon)
    \/ HeartbeatStop(TheDaemon)
    \/ RunnerStop(TheDaemon)
    \/ PlannerStop(TheDaemon)

SpecShutdown == Init /\ [][NextShutdown]_vars

\* The body of a tick goes on until its end, and tokio::select!, which polls
\* its branches in random order, does not pass over a ready
\* shutdown_rx.changed() for ever.
ShutdownFairness ==
    /\ WF_vars(HeartbeatApply(TheDaemon))
    /\ WF_vars(\E t \in runner[TheDaemon].queue : RunTaskBegin(TheDaemon, t))
    /\ WF_vars(\E status \in {"Completed", "Failed"} : RunTaskEnd(TheDaemon, status))
    /\ WF_vars(PlannerDone(TheDaemon))
    /\ SF_vars(HeartbeatStop(TheDaemon))
    /\ SF_vars(RunnerStop(TheDaemon))
    /\ SF_vars(PlannerStop(TheDaemon))

SpecShutdownFair == SpecShutdown /\ ShutdownFairness

(***************************************************************************)
(* SpecStorage: one node's SledStorage (replicator/storage.rs) across      *)
(* crashes.  sled keeps inserts in its page cache until a flush: an        *)
(* explicit one, or the one its background thread makes at any moment.     *)
(* The writes reach the disk in the order they were made, so a crash keeps *)
(* a prefix of them.  The log is written by append_to_log, which flushes   *)
(* before it returns.  Entries are commands (Blank and Membership entries  *)
(* change no HiveState).  The wall clock stands still.                     *)
(***************************************************************************)
NoSnapshot == [nodes |-> "none"]

\* SledStorage::new on an empty data_dir, before any entry.
StoreNew ==
    [pc |-> "idle",             \* position in apply_to_state_machine
     i |-> 0, hi |-> 0,         \* the entry being applied, the batch's last
     state |-> HiveStateNew,    \* self.state, the SharedState in memory
     applied |-> 0,             \* the last applied index raft core holds
     pending |-> << >>,         \* meta_tree inserts not yet on disk, in order
     disk_applied |-> 0,        \* KEY_LAST_APPLIED on disk
     disk_snapshot |-> NoSnapshot,   \* KEY_STATE_SNAPSHOT on disk
     recovered |-> FALSE]       \* the node has crashed and restarted

\* The commands of the entries.
StoreCommands ==
    {RegisterNode(NodeStatus("n1", "Healthy", 0, 0)),
     PutTask(Task("t1", "n1", EchoPayload, "Pending", 5, 0, 0, "None")),
     UpdateTaskStatus("t1", "Running", "None")}

\* The disk after the first k pending inserts reached it.
Flushed(st, k) ==
    LET idx(key) == {j \in 1..k : st.pending[j].key = key}
        last(key, old) ==
            IF idx(key) = {} THEN old
            ELSE st.pending[CHOOSE j \in idx(key) : \A x \in idx(key) : x <= j].value
    IN  [st EXCEPT !.disk_applied = last("last_applied", st.disk_applied),
                   !.disk_snapshot = last("state_snapshot", st.disk_snapshot),
                   !.pending = SubSeq(st.pending, k + 1, Len(st.pending))]

InitStorage ==
    /\ now = 0
    /\ log = << >>
    /\ sm = [n \in Nodes |-> HiveStateNew]
    /\ applied = [n \in Nodes |-> 0]
    /\ ClusterUnused
    /\ SideUnused
    /\ store = StoreNew

\* append_to_log: the entry is inserted in log_tree and flushed.
AppendToLog(c) ==
    /\ store.pc # "crashed"
    /\ Len(log) < MaxLogStore
    /\ log' = Append(log, c)
    /\ UNCHANGED <<now, sm, applied, clusterVars, store, sideVars>>

\* raft core calls apply_to_state_machine with the entries after the last
\* applied one, up to index hi.
ApplyBatchBegin(hi) ==
    /\ store.pc = "idle"
    /\ hi \in (store.applied + 1)..Len(log)
    /\ store' = [store EXCEPT !.pc = "marker", !.i = store.applied + 1, !.hi = hi]
    /\ UNCHANGED <<smVars, clusterVars, sideVars>>

\* apply_to_state_machine, in the loop: set_last_applied(entry.log_id).
ApplySetLastApplied ==
    /\ store.pc = "marker"
    /\ store' = [store EXCEPT
           !.pending = Append(@, [key |-> "last_applied", value |-> store.i]),
           !.pc = "apply"]
    /\ UNCHANGED <<smVars, clusterVars, sideVars>>

\* apply_to_state_machine, in the loop: self.state.apply(cmd).
ApplyEntry ==
    /\ store.pc = "apply"
    /\ store' = [store EXCEPT
           !.state = Apply(@, log[store.i], now),
           !.i = @ + 1,
           !.pc = IF store.i < store.hi THEN "marker" ELSE "save"]
    /\ UNCHANGED <<smVars, clusterVars, sideVars>>

\* apply_to_state_machine, after the loop: save_state_snapshot inserts the
\* state and flushes; the call returns and raft core advances its index.
ApplySaveSnapshot ==
    /\ store.pc = "save"
    /\ LET st == [store EXCEPT
                    !.pending = Append(@, [key |-> "state_snapshot",
                                           value |-> store.state])]
       IN  store' = [Flushed(st, Len(st.pending)) EXCEPT
                       !.pc = "idle", !.applied = store.hi]
    /\ UNCHANGED <<smVars, clusterVars, sideVars>>

\* sled's background flush: the first k pending inserts reach the disk.
BackgroundFlush(k) ==
    /\ store.pc # "crashed"
    /\ k \in 1..Len(store.pending)
    /\ store' = Flushed(store, k)
    /\ UNCHANGED <<smVars, clusterVars, sideVars>>

\* The process dies: memory and the page cache are lost.
Crash ==
    /\ store.pc # "crashed"
    /\ store' = [store EXCEPT !.pc = "crashed", !.pending = << >>,
                              !.state = HiveStateNew, !.i = 0, !.hi = 0]
    /\ UNCHANGED <<smVars, clusterVars, sideVars>>

\* Restart on the same data_dir: SledStorage::new restores the state from
\* KEY_STATE_SNAPSHOT (a new HiveState when there is none) and raft core reads
\* the applied index from last_applied_state.
Restart ==
    /\ store.pc = "crashed"
    /\ store' = [store EXCEPT
           !.pc = "idle",
           !.state = IF store.disk_snapshot = NoSnapshot THEN HiveStateNew
                     ELSE store.disk_snapshot,
           !.applied = store.disk_applied,
           !.recovered = TRUE]
    /\ UNCHANGED <<smVars, clusterVars, sideVars>>

NextStorage ==
    \/ \E c \in StoreCommands : AppendToLog(c)
    \/ \E hi \in 1..MaxLogStore : ApplyBatchBegin(hi)
    \/ ApplySetLastApplied
    \/ ApplyEntry
    \/ ApplySaveSnapshot
    \/ \E k \in 1..MaxLogStore : BackgroundFlush(k)
    \/ Crash
    \/ Restart

SpecStorage == InitStorage /\ [][NextStorage]_vars

(***************************************************************************)
(* SpecTracker: one ActionTracker under arbitrary sequences of calls, as   *)
(* the tests of tests/tracker_test.rs make them, while the clock advances. *)
(***************************************************************************)
\* The node whose tracker is called.
TrackerNode == "n1"

\* The actions handed to track_action and has_similar_pending.
TrackerActions ==
    {ScheduleTask(EchoPayload, "n1", 5), NoOp}

\* The ids handed to mark_executing, mark_completed and mark_failed: those
\* track_action has returned, and one it has not.
TrackerIds == {ActionId(k) : k \in 1..(tracker[TrackerNode].drawn + 1)}

InitTracker ==
    /\ now = 0
    /\ log = << >>
    /\ sm = [n \in Nodes |-> HiveStateNew]
    /\ applied = [n \in Nodes |-> 0]
    /\ ClusterUnused
    /\ SideUnused
    /\ store = StoreUnused

\* What a call of the tracker leaves alone.
TrackerFrame ==
    UNCHANGED <<smVars, leader, started, nextId, runner, planner, event, store, sideVars>>

CallTrackAction(action) ==
    /\ tracker[TrackerNode].drawn < MaxTracked
    /\ tracker' = [tracker EXCEPT ![TrackerNode] = TrackAction(@, action, now)]
    /\ TrackerFrame

CallMarkExecuting(id) ==
    /\ tracker' = [tracker EXCEPT ![TrackerNode] = MarkExecuting(@, id)]
    /\ TrackerFrame

CallMarkCompleted(id) ==
    /\ tracker' = [tracker EXCEPT ![TrackerNode] = MarkCompleted(@, id, "None", now)]
    /\ TrackerFrame

CallMarkFailed(id) ==
    /\ tracker' = [tracker EXCEPT ![TrackerNode] = MarkFailed(@, id, "error", now)]
    /\ TrackerFrame

CallCleanupStale ==
    /\ \E T \in CleanupStale(tracker[TrackerNode], now) :
         tracker' = [tracker EXCEPT ![TrackerNode] = T]
    /\ TrackerFrame

\* The clock advances by one action_timeout.
ClockTick ==
    /\ now < MaxClock
    /\ now' = now + 1
    /\ UNCHANGED <<log, sm, applied, clusterVars, store, sideVars>>

NextTracker ==
    \/ \E action \in TrackerActions : CallTrackAction(action)
    \/ \E id \in TrackerIds : CallMarkExecuting(id)
    \/ \E id \in TrackerIds : CallMarkCompleted(id)
    \/ \E id \in TrackerIds : CallMarkFailed(id)
    \/ CallCleanupStale
    \/ ClockTick

SpecTracker == InitTracker /\ [][NextTracker]_vars

(***************************************************************************)
(* SpecSimilarity: is_similar_action called on pairs of actions.           *)
(***************************************************************************)
\* The actions is_similar_action is called on.
SimilarityDomain ==
    {ScheduleTask(p, n, prio) :
        p \in {EchoPayload, Payload("Echo", HomeB, EmptyPath),
               Payload("SyncDirectory", EtcNginx, HomeB)},
        n \in Nodes, prio \in {3, 5}}
    \cup {RebalanceTask(t, n) : t \in {"t1", "t2"}, n \in Nodes}
    \cup {CancelTask(t) : t \in {"t1", "t2"}}
    \cup {MarkNodeDegraded(n) : n \in Nodes}
    \cup {UpdateGoalProgress("g1"), RemoveAttachmentAction("x1"),
          CreateAttachment("n1", AttKind("Directory", HomeB)),
          RequestHumanApproval, NoOp}

\* is_similar_action(a, b): the call and what it returned.
CallIsSimilarAction(a, b) ==
    /\ event' = [origin |-> "is_similar_action", a |-> a, b |-> b,
                 result |-> IsSimilarAction(a, b)]
    /\ UNCHANGED <<smVars, leader, started, nextId, runner, planner, tracker, store, sideVars>>

NextSimilarity == \E a \in SimilarityDomain : \E b \in SimilarityDomain : CallIsSimilarAction(a, b)

SpecSimilarity == InitTracker /\ [][NextSimilarity]_vars

(***************************************************************************)
(* SpecValidator: ActionValidator::validate called on actions, snapshots   *)
(* and policies, as the tests of tests/validator_test.rs call it.          *)
(***************************************************************************)
HomeA == <<"/", "h", "o", "m", "e", "/", "a">>

\* The paths of the actions.
ValidatorPaths == {EtcNginx, HomeA, HomeB}

\* The policies: every combination of the two flags, three allowed lists and
\* three blocked lists, one of them blocking a path under an allowed prefix.
ValidatorPolicies ==
    {[allow_restart_services |-> r,
      allow_docker |-> d,
      allowed_sync_paths |-> al,
      blocked_sync_paths |-> bl,
      max_concurrent_tasks_per_node |-> 1] :
        r \in BOOLEAN, d \in BOOLEAN,
        al \in {{}, {<<"/", "h", "o", "m", "e">>},
                {<<"/", "h", "o", "m", "e">>, <<"/", "d", "a", "t", "a">>}},
        bl \in {{}, {<<"/", "e", "t", "c">>, <<"/", "v", "a", "r">>}, {HomeB}}}

ValidatorPayloads ==
    {Payload(k, EmptyPath, EmptyPath) : k \in PayloadKinds \ {"SyncDirectory"}}
    \cup {Payload("SyncDirectory", src, dst) : src \in ValidatorPaths, dst \in ValidatorPaths}

ValidatorActions ==
    {ScheduleTask(p, n, 5) : p \in ValidatorPayloads, n \in Nodes}
    \cup {RebalanceTask(t, n) : t \in {"t1", "t2"}, n \in Nodes}
    \cup {CancelTask(t) : t \in {"t1", "t2"}}
    \cup {MarkNodeDegraded(n) : n \in Nodes}
    \cup {CreateAttachment(n, AttKind("Directory", p)) : n \in Nodes, p \in ValidatorPaths}
    \cup {CreateAttachment("n1", AttKind(k, EmptyPath)) : k \in {"DockerContainer", "Service"}}
    \cup {RemoveAttachmentAction(x) : x \in {"x1", "x2"}}
    \cup {UpdateGoalProgress(g) : g \in {"g1", "g2"}}
    \cup {RequestHumanApproval, NoOp}

\* The snapshots: of the empty state, of a state with node n1, of that state
\* with a Pending task on n1, and of one with a Completed task, a goal and an
\* attachment.
ValidatorStates ==
    LET s1 == Apply(HiveStateNew, RegisterNode(NodeStatus("n1", "Healthy", 0, 0)), 0)
        s2 == Apply(s1, PutTask(Task("t1", "n1", EchoPayload, "Pending", 5, 0, 0, "None")), 0)
        s3 == Apply(Apply(Apply(s1,
                PutTask(Task("t1", "n1", EchoPayload, "Completed", 5, 0, 0, "Some")), 0),
                PutGoal(Goal("g1", 5, TRUE, 0)), 0),
                PutAttachment(Attachment("x1", "n1", AttKind("Service", EmptyPath), 0)), 0)
    IN  {HiveStateNew, s1, s2, s3}

\* A validator with some policy is about to be called on some action and
\* some snapshot.
InitValidator ==
    /\ now = 0
    /\ log = << >>
    /\ sm = [n \in Nodes |-> HiveStateNew]
    /\ applied = [n \in Nodes |-> 0]
    /\ leader = NoLeader
    /\ started = [n \in Nodes |-> FALSE]
    /\ nextId = 0
    /\ runner = [n \in Nodes |-> RunnerIdle]
    /\ planner = [n \in Nodes |-> PlannerIdle]
    /\ tracker = [n \in Nodes |-> TrackerNew]
    /\ store = StoreUnused
    /\ SideUnused
    /\ \E policy \in ValidatorPolicies : \E action \in ValidatorActions :
         \E S \in ValidatorStates :
           event = [origin |-> "validate", policy |-> policy, action |-> action,
                    cluster |-> ToClusterView(S), result |-> "pending"]

\* validate(action, cluster) returns.
CallValidate ==
    /\ event.origin = "validate"
    /\ event.result = "pending"
    /\ event' = [event EXCEPT !.result = Validate(event.policy, event.action, event.cluster)]
    /\ UNCHANGED <<smVars, leader, started, nextId, runner, planner, tracker, store, sideVars>>

NextValidator == CallValidate

SpecValidator == InitValidator /\ [][NextValidator]_vars

(***************************************************************************)
(* SpecTrackerLocks: one ActionTracker called by two threads, a writer and *)
(* a reader, lock by lock.  actions and action_history are behind separate *)
(* RwLocks; a step of the writer is what it does between acquiring a lock  *)
(* and releasing the last lock it holds, and get_stats, which holds both   *)
(* read locks while it counts, is one step of the reader.                  *)
(***************************************************************************)
NoObservation == [kind |-> "None"]

\* The writer is between calls; nothing has been observed.
CallerNew == [pc |-> "idle", held |-> NoAction, stale |-> {}, observed |-> NoObservation]

InitTrackerLocks ==
    /\ now = 0
    /\ log = << >>
    /\ sm = [n \in Nodes |-> HiveStateNew]
    /\ applied = [n \in Nodes |-> 0]
    /\ ClusterUnused
    /\ store = StoreUnused
    /\ shutdown = [n \in Nodes |-> FALSE]
    /\ heartbeat = [n \in Nodes |-> HeartbeatIdle]
    /\ caller = CallerNew
    /\ snapshot = SnapshotUnused
    /\ enroll = EnrollUnused

LocksFrame ==
    UNCHANGED <<smVars, leader, started, nextId, runner, planner, event, store,
                shutdown, heartbeat, snapshot, enroll>>

\* track_action followed by mark_executing, each under actions.write().
WriterTrack ==
    /\ caller.pc = "idle"
    /\ tracker[TrackerNode].drawn < MaxTracked
    /\ tracker' = [tracker EXCEPT ![TrackerNode] =
                     MarkExecuting(TrackAction(@, NoOp, now), ActionId(@.drawn + 1))]
    /\ UNCHANGED caller
    /\ LocksFrame

\* mark_completed: the actions write guard is held until add_to_history has
\* returned.
WriterMarkCompleted(id) ==
    /\ caller.pc = "idle"
    /\ id \in DOMAIN tracker[TrackerNode].actions
    /\ tracker' = [tracker EXCEPT ![TrackerNode] = MarkCompleted(@, id, "None", now)]
    /\ UNCHANGED caller
    /\ LocksFrame

\* mark_failed up to drop(actions): the count goes up, and the action either
\* goes back to Proposed or is removed from the ledger and held by the
\* caller, the lock released.
WriterMarkFailed(id) ==
    /\ caller.pc = "idle"
    /\ id \in DOMAIN tracker[TrackerNode].actions
    /\ LET action == [tracker[TrackerNode].actions[id] EXCEPT !.retry_count = @ + 1]
       IN  IF action.retry_count >= TrackerConfig.max_retries
             THEN /\ tracker' = [tracker EXCEPT ![TrackerNode].actions = MapRemove(@, id)]
                  /\ caller' = [caller EXCEPT
                                  !.pc = "add_to_history",
                                  !.held = [action EXCEPT
                                              !.status = "Failed",
                                              !.result = ActionResult(FALSE, "error", now)]]
             ELSE /\ tracker' = [tracker EXCEPT ![TrackerNode].actions =
                                   MapPut(@, id, [action EXCEPT !.status = "Proposed"])]
                  /\ UNCHANGED caller
    /\ LocksFrame

\* cleanup_stale up to its first drop(actions), or to its end when nothing is
\* stale: the stale ids are collected and the first one is removed.
WriterCleanupStale ==
    /\ caller.pc = "idle"
    /\ LET ids == StaleIds(tracker[TrackerNode], now)
       IN  /\ ids # {}
           /\ \E id \in ids :
                /\ tracker' = [tracker EXCEPT ![TrackerNode].actions = MapRemove(@, id)]
                /\ caller' = [caller EXCEPT
                                !.pc = "add_to_history",
                                !.held = [tracker[TrackerNode].actions[id] EXCEPT
                                            !.status = "Failed",
                                            !.result = ActionResult(FALSE, "Timeout", now)],
                                !.stale = ids \ {id}]
    /\ LocksFrame

\* add_to_history under action_history.write(), and in cleanup_stale the
\* reacquired actions lock and the removal of the next stale id, if any.
WriterAddToHistory ==
    /\ caller.pc = "add_to_history"
    /\ LET T == AddToHistory(tracker[TrackerNode], caller.held)
           ids == caller.stale \cap DOMAIN T.actions
       IN  IF ids = {}
             THEN /\ tracker' = [tracker EXCEPT ![TrackerNode] = T]
                  /\ caller' = [caller EXCEPT !.pc = "idle", !.held = NoAction, !.stale = {}]
             ELSE \E id \in ids :
                    /\ tracker' = [tracker EXCEPT ![TrackerNode] =
                                     [T EXCEPT !.actions = MapRemove(@, id)]]
                    /\ caller' = [caller EXCEPT
                                    !.held = [T.actions[id] EXCEPT
                                                !.status = "Failed",
                                                !.result = ActionResult(FALSE, "Timeout", now)],
                                    !.stale = ids \ {id}]
    /\ LocksFrame

\* get_stats on the other thread: both read locks are free whenever the
\* writer is between two of its steps.
ReaderGetStats ==
    /\ caller' = [caller EXCEPT
                    !.observed = [kind |-> "Stats",
                                  stats |-> GetStats(tracker[TrackerNode]),
                                  tracked |-> tracker[TrackerNode].drawn]]
    /\ UNCHANGED tracker
    /\ LocksFrame

NextTrackerLocks ==
    \/ WriterTrack
    \/ \E id \in TrackerIds : WriterMarkCompleted(id)
    \/ \E id \in TrackerIds : WriterMarkFailed(id)
    \/ WriterCleanupStale
    \/ WriterAddToHistory
    \/ ReaderGetStats
    \/ ClockTick

SpecTrackerLocks == InitTrackerLocks /\ [][NextTrackerLocks]_vars

(***************************************************************************)
(* SpecLockOrder: the RwLocks of one ActionTracker, actions and            *)
(* action_history, taken by three threads that make MaxCalls calls of its   *)
(* operations between them.  Only the locks are kept: an operation is the  *)
(* sequence of acquisitions and releases it makes, one sequence for each   *)
(* way its branches can go.                                                *)
(***************************************************************************)
LockThreads == {"a", "b", "c"}

\* The most stale ids one cleanup_stale finds.
MaxStale == 1

\* The calls made in one run.
MaxCalls == 3

TrackerOps ==
    {"track_action", "mark_executing", "mark_completed", "mark_failed",
     "cleanup_stale", "get_stats", "get_recent_failures", "has_similar_pending"}

Acquire(lock, mode) == [do |-> "acquire", lock |-> lock, mode |-> mode]

Release(lock) == [do |-> "release", lock |-> lock]

\* One lock taken and released.
Single(lock, mode) == <<Acquire(lock, mode), Release(lock)>>

\* The lock order of an operation that has get_stats take action_history
\* before actions.
LockOrderStatsReversed(op) ==
    IF op = "get_stats" THEN <<"action_history", "actions">>
    ELSE <<"actions", "action_history">>

\* The order in which an operation that holds both locks takes them.
LockOrder(op) == <<"actions", "action_history">>

\* Both locks held at once: the second guard is dropped first.
Nested(op, mode) ==
    <<Acquire(LockOrder(op)[1], mode), Acquire(LockOrder(op)[2], mode),
      Release(LockOrder(op)[2]), Release(LockOrder(op)[1])>>

\* cleanup_stale's loop over k stale ids, actions.write() held on entry.
RECURSIVE CleanupLocks(_)
CleanupLocks(k) ==
    IF k = 0 THEN <<Release("actions")>>
    ELSE <<Release("actions")>> \o Single("action_history", "write")
           \o <<Acquire("actions", "write")>> \o CleanupLocks(k - 1)

\* The lock sequences of op.
LockPrograms(op) ==
    CASE op \in {"track_action", "mark_executing"} -> {Single("actions", "write")}
      [] op = "mark_completed" -> {Single("actions", "write"), Nested(op, "write")}
      [] op = "mark_failed" ->
           {Single("actions", "write"),
            Single("actions", "write") \o Single("action_history", "write")}
      [] op = "cleanup_stale" ->
           {<<Acquire("actions", "write")>> \o CleanupLocks(k) : k \in 0..MaxStale}
      [] op = "get_stats" -> {Nested(op, "read")}
      [] op = "get_recent_failures" -> {Single("action_history", "read")}
      [] op = "has_similar_pending" -> {Single("actions", "read")}

LockFree == [writer |-> "none", readers |-> {}]

ThreadIdle == [op |-> "idle", prog |-> << >>]

\* std's RwLock leaves the priority between readers and writers to the
\* platform: readers either pass a waiting writer or queue behind it.
LockPolicies == {"readers_pass", "writers_first"}

InitLockOrder ==
    /\ now = 0
    /\ log = << >>
    /\ sm = [n \in Nodes |-> HiveStateNew]
    /\ applied = [n \in Nodes |-> 0]
    /\ ClusterUnused
    /\ store = StoreUnused
    /\ shutdown = [n \in Nodes |-> FALSE]
    /\ heartbeat = [n \in Nodes |-> HeartbeatIdle]
    /\ \E policy \in LockPolicies :
         caller = [policy |-> policy,
                   calls |-> 0,
                   locks |-> [l \in {"actions", "action_history"} |-> LockFree],
                   threads |-> [t \in LockThreads |-> ThreadIdle]]
    /\ snapshot = SnapshotUnused
    /\ enroll = EnrollUnused

LockOrderFrame ==
    UNCHANGED <<smVars, clusterVars, store, shutdown, heartbeat, snapshot, enroll>>

\* Thread t is at an acquisition of lock in mode.
WaitsFor(t, lock, mode) ==
    /\ caller.threads[t].prog # << >>
    /\ Head(caller.threads[t].prog) = Acquire(lock, mode)

\* read() and write() return: no writer holds the lock, and for write() no
\* reader does either.
CanAcquire(t, lock, mode) ==
    /\ caller.locks[lock].writer = "none"
    /\ mode = "write" => caller.locks[lock].readers = {}
    /\ (mode = "read" /\ caller.policy = "writers_first")
         => ~\E u \in LockThreads \ {t} : WaitsFor(u, lock, "write")

\* Thread t calls op.
LockCall(t, op) ==
    /\ caller.threads[t].op = "idle"
    /\ caller.calls < MaxCalls
    /\ \E prog \in LockPrograms(op) :
         caller' = [caller EXCEPT !.threads[t] = [op |-> op, prog |-> prog],
                                  !.calls = @ + 1]
    /\ LockOrderFrame

\* A read() or write() of thread t returns its guard.
LockAcquire(t) ==
    /\ caller.threads[t].prog # << >>
    /\ LET ins == Head(caller.threads[t].prog)
       IN  /\ ins.do = "acquire"
           /\ CanAcquire(t, ins.lock, ins.mode)
           /\ caller' = [caller EXCEPT
                           !.threads[t].prog = Tail(@),
                           !.locks[ins.lock] =
                               IF ins.mode = "write" THEN [@ EXCEPT !.writer = t]
                               ELSE [@ EXCEPT !.readers = @ \cup {t}]]
    /\ LockOrderFrame

\* Thread t drops a guard; the operation returns with its last one.
LockRelease(t) ==
    /\ caller.threads[t].prog # << >>
    /\ LET ins == Head(caller.threads[t].prog)
           rest == Tail(caller.threads[t].prog)
       IN  /\ ins.do = "release"
           /\ caller' = [caller EXCEPT
                           !.threads[t] = IF rest = << >> THEN ThreadIdle
                                          ELSE [@ EXCEPT !.prog = rest],
                           !.locks[ins.lock] =
                               [writer |-> IF @.writer = t THEN "none" ELSE @.writer,
                                readers |-> @.readers \ {t}]]
    /\ LockOrderFrame

NextLockOrder ==
    \/ \E t \in LockThreads, op \in TrackerOps : LockCall(t, op)
    \/ \E t \in LockThreads : LockAcquire(t)
    \/ \E t \in LockThreads : LockRelease(t)

SpecLockOrder == InitLockOrder /\ [][NextLockOrder]_vars

\* Every thread runs: a guard that can be dropped is dropped, and a lock that
\* stays available to a thread is granted to it.
LockFairness ==
    \A t \in LockThreads : WF_vars(LockAcquire(t) \/ LockRelease(t))

SpecLockOrderFair == SpecLockOrder /\ LockFairness

(***************************************************************************)
(* SpecEnroll: one EnrollmentManager (auth/enrollment.rs) whose enroll is  *)
(* called from two threads.  tokens is behind a RwLock that enroll takes   *)
(* twice: to read the token, and, after the certificate is signed, to      *)
(* remove it.                                                              *)
(***************************************************************************)
MaxTokens == 1

EnrollCallers == {"c1", "c2"}

Token(k) == <<"k1", "k2", "k3">>[k]

TagSets == {{}, {"gpu"}}

\* EnrollmentToken
EnrollmentToken(token, expires_at, allowed_tags) ==
    [token |-> token, expires_at |-> expires_at, allowed_tags |-> allowed_tags]

CallIdle == [pc |-> "idle", token |-> "none", tags |-> {}, result |-> "none"]

\* EnrollmentManager::new, no call in progress; admitted counts the Ok
\* results returned for each token.
EnrollNew ==
    [tokens |-> EmptyMap,
     generated |-> 0,
     calls |-> [c \in EnrollCallers |-> CallIdle],
     admitted |-> [k \in {} |-> 0]]

InitEnroll ==
    /\ now = 0
    /\ log = << >>
    /\ sm = [n \in Nodes |-> HiveStateNew]
    /\ applied = [n \in Nodes |-> 0]
    /\ ClusterUnused
    /\ store = StoreUnused
    /\ shutdown = [n \in Nodes |-> FALSE]
    /\ heartbeat = [n \in Nodes |-> HeartbeatIdle]
    /\ caller = CallerUnused
    /\ snapshot = SnapshotUnused
    /\ enroll = EnrollNew

EnrollFrame ==
    UNCHANGED <<smVars, clusterVars, store, shutdown, heartbeat, caller, snapshot>>

\* generate_token(valid_hours, allowed_tags)
GenerateToken(valid_hours, allowed_tags) ==
    /\ enroll.generated < MaxTokens
    /\ LET token == Token(enroll.generated + 1)
       IN  enroll' = [enroll EXCEPT
                        !.tokens = MapPut(@, token,
                                          EnrollmentToken(token, now + valid_hours, allowed_tags)),
                        !.generated = @ + 1,
                        !.admitted = MapPut(@, token, 0)]
    /\ EnrollFrame

\* enroll's test of the request's tags against the token's allowed_tags.
TagsAllowedAll(allowed_tags, tags) == TRUE

TagsAllowed(allowed_tags, tags) ==
    allowed_tags = {} \/ tags \cap allowed_tags # {}

\* The tags of the enrollment requests.
RequestTagSets == {{}, {"cpu"}, {"gpu"}}

\* A call of enroll that has returned an error, or is about to sign.
EnrollCall(pc, token, tags, result) ==
    [pc |-> pc, token |-> token, tags |-> tags, result |-> result]

\* enroll(req) up to sign_node: the token is read under tokens.read(), then
\* the expiry (an expired token is removed) and the tags are checked.
EnrollBegin(c, token, tags) ==
    /\ enroll.calls[c].pc = "idle"
    /\ IF token \notin DOMAIN enroll.tokens
         THEN enroll' = [enroll EXCEPT !.calls[c] =
                           EnrollCall("idle", token, tags, "Invalid enrollment token")]
         ELSE LET found == enroll.tokens[token]
              IN  IF now > found.expires_at
                    THEN enroll' = [enroll EXCEPT
                                      !.tokens = MapRemove(@, token),
                                      !.calls[c] = EnrollCall("idle", token, tags,
                                                              "Enrollment token has expired")]
                    ELSE IF ~TagsAllowed(found.allowed_tags, tags)
                           THEN enroll' = [enroll EXCEPT !.calls[c] =
                                             EnrollCall("idle", token, tags,
                                                        "Node tags not in allowed tags")]
                           ELSE enroll' = [enroll EXCEPT !.calls[c] =
                                             EnrollCall("signing", token, tags, "pending")]
    /\ EnrollFrame

\* enroll(req) from sign_node to its end: the certificate is signed, the
\* peers are read, the token is removed under tokens.write() and the
\* response is returned; or sign_node fails and enroll returns its error.
EnrollEnd(c, signed) ==
    /\ enroll.calls[c].pc = "signing"
    /\ LET token == enroll.calls[c].token
       IN  IF signed
             THEN enroll' = [enroll EXCEPT
                               !.tokens = MapRemove(@, token),
                               !.calls[c] = [@ EXCEPT !.pc = "idle", !.result = "ok"],
                               !.admitted[token] = @ + 1]
             ELSE enroll' = [enroll EXCEPT
                               !.calls[c] = [@ EXCEPT !.pc = "idle",
                                                       !.result = "sign_node failed"]]
    /\ EnrollFrame

NextEnroll ==
    \/ \E valid_hours \in {1} : \E allowed_tags \in TagSets :
         GenerateToken(valid_hours, allowed_tags)
    \/ \E c \in EnrollCallers : \E k \in 1..(MaxTokens + 1) : \E tags \in RequestTagSets :
         EnrollBegin(c, Token(k), tags)
    \/ \E c \in EnrollCallers : \E signed \in BOOLEAN : EnrollEnd(c, signed)
    \/ ClockTick

SpecEnroll == InitEnroll /\ [][NextEnroll]_vars

(***************************************************************************)
(* SpecSnapshot: a sender's SledStorage applying entries while the         *)
(* snapshot builder that get_snapshot_builder returned (a SledStorage on   *)
(* the same SharedState and meta_tree, run by raft in a task of its own)   *)
(* builds a snapshot, and a receiver installing it.  No crash; the wall    *)
(* clock stands still.                                                     *)
(***************************************************************************)
MaxSnapshots == 2

\* serde_json of an Option<serde_json::Value>: None is written as null.
EncodeResult(result) == IF result = "None" THEN "null" ELSE "object"

\* serde_json reading an Option<serde_json::Value>: null is read as None.
DecodeResult(json) == IF json = "null" THEN "None" ELSE "Some"

\* serde_json::to_vec(&hive_state)
Encode(S) ==
    [S EXCEPT !.tasks = [id \in DOMAIN S.tasks |->
                           [S.tasks[id] EXCEPT !.result = EncodeResult(@)]]]

\* serde_json::from_slice::<HiveState>(&data)
Decode(data) ==
    [data EXCEPT !.tasks = [id \in DOMAIN data.tasks |->
                              [data.tasks[id] EXCEPT !.result = DecodeResult(@)]]]

\* The commands of the entries.
SnapshotCommands ==
    StoreCommands \cup {UpdateTaskStatus("t1", "Completed", "Some")}

\* get_last_applied: KEY_LAST_APPLIED as meta_tree holds it, flushed or not.
GetLastApplied == Flushed(store, Len(store.pending)).disk_applied

\* The builder before build_snapshot and the receiver before any snapshot.
SnapshotNew ==
    [pc |-> "idle",
     data |-> Encode(HiveStateNew),     \* the bytes of the snapshot
     last_log_id |-> 0,                 \* meta.last_log_id
     snapshot_idx |-> 0,
     receiver |-> [state |-> HiveStateNew, last_applied |-> 0, installed |-> FALSE]]

InitSnapshot ==
    /\ now = 0
    /\ log = << >>
    /\ sm = [n \in Nodes |-> HiveStateNew]
    /\ applied = [n \in Nodes |-> 0]
    /\ ClusterUnused
    /\ store = StoreNew
    /\ shutdown = [n \in Nodes |-> FALSE]
    /\ heartbeat = [n \in Nodes |-> HeartbeatIdle]
    /\ caller = CallerUnused
    /\ enroll = EnrollUnused
    /\ snapshot = SnapshotNew

SnapshotFrame ==
    UNCHANGED <<smVars, clusterVars, store, shutdown, heartbeat, caller, enroll>>

\* build_snapshot: hive_state = self.state.snapshot() and its encoding.
BuildSnapshotState ==
    /\ snapshot.pc = "idle"
    /\ snapshot.snapshot_idx < MaxSnapshots
    /\ snapshot' = [snapshot EXCEPT !.pc = "meta", !.data = Encode(store.state)]
    /\ SnapshotFrame

\* build_snapshot from get_last_applied to its end.
BuildSnapshotMeta ==
    /\ snapshot.pc = "meta"
    /\ snapshot' = [snapshot EXCEPT !.pc = "built",
                                    !.last_log_id = GetLastApplied,
                                    !.snapshot_idx = @ + 1]
    /\ SnapshotFrame

\* install_snapshot(meta, snapshot) on the receiver.
InstallSnapshot ==
    /\ snapshot.pc = "built"
    /\ snapshot' = [snapshot EXCEPT
           !.pc = "idle",
           !.receiver = [state |-> Decode(snapshot.data),
                         last_applied |-> IF snapshot.last_log_id = 0
                                            THEN @.last_applied
                                            ELSE snapshot.last_log_id,
                         installed |-> TRUE]]
    /\ SnapshotFrame

NextSnapshot ==
    \/ \E c \in SnapshotCommands : AppendToLog(c)
    \/ \E hi \in 1..MaxLogStore : ApplyBatchBegin(hi)
    \/ ApplySetLastApplied
    \/ ApplyEntry
    \/ ApplySaveSnapshot
    \/ BuildSnapshotState
    \/ BuildSnapshotMeta
    \/ InstallSnapshot

SpecSnapshot == InitSnapshot /\ [][NextSnapshot]_vars

(***************************************************************************)
(* SpecPlanner: the planner loop of daemon.rs with its ActionTracker, on   *)
(* every node, over the replicated state.  Spec above has the same loop    *)
(* without the tracker's filter, every action of a plan reaching execute.  *)
(* The other loops and the task handlers are left to Spec.  In SpecPlanner *)
(* the wall clock stands still; in SpecPlannerFair it advances and the     *)
(* loops' ticks keep occurring.                                            *)
(***************************************************************************)
\* daemon.rs is_recently_failed
IsRecentlyFailed(action, recent_failures) ==
    \E i \in 1..Len(recent_failures) : IsSimilarAction(recent_failures[i].action, action)

\* The record of what the loop did with one action of the plan; id is the id
\* track_action gave it ("none": it was skipped).
PlannerEvent(n, a, cmd, validated, result, id) ==
    [ExecuteEvent(n, a, cmd, validated, result) EXCEPT !.origin = "planner_loop", !.id = id]

\* The actions the oracle returns in this specification: a task for the
\* node itself at two priorities, a sync the policy blocks, and nothing.
LoopPlanActions(n) ==
    {ScheduleTask(EchoPayload, n, 5),
     ScheduleTask(EchoPayload, n, 3),
     ScheduleTask(Payload("SyncDirectory", EtcNginx, HomeB), n, 5),
     NoOp}

\* The calls a tick of the planner loop makes before the plan's actions.
TickCalls(n) ==
    IF ~IsLeader(n) THEN <<"cleanup_stale">>
    ELSE IF Snapshot(n).goals = {} THEN <<"cleanup_stale", "snapshot">>
    ELSE <<"cleanup_stale", "snapshot", "get_recent_failures", "get_stats", "plan">>

\* A tick of the planner loop: cleanup_stale, then nothing more on a node
\* that is not the leader or sees no goal; otherwise the recent failures are
\* read and brain.plan is called.
PlannerLoopTick(n) ==
    /\ started[n]
    /\ planner[n].pc = "idle"
    /\ \E T \in CleanupStale(tracker[n], now) :
         /\ tracker' = [tracker EXCEPT ![n] = T]
         /\ planner' = [planner EXCEPT ![n] =
                          IF IsLeader(n) /\ Snapshot(n).goals # {}
                            THEN [pc |-> "planning",
                                  recent_failures |-> GetRecentFailures(T, 10)]
                            ELSE PlannerIdle]
    /\ event' = [origin |-> "planner_tick", node |-> n, calls |-> TickCalls(n)]
    /\ UNCHANGED <<smVars, leader, started, nextId, runner, store, sideVars>>

\* The body of the loop for the next action of the plan: it is skipped when
\* a similar action is in the ledger or failed recently; otherwise it is
\* tracked, marked Executing and executed, and marked Completed on Ok and
\* failed on any Err.
PlannerLoopAction(n, a) ==
    /\ planner[n].pc = "planning"
    /\ a \in LoopPlanActions(n)
    /\ IF \/ HasSimilarPending(tracker[n], a)
          \/ IsRecentlyFailed(a, planner[n].recent_failures)
         THEN /\ event' = PlannerEvent(n, a, NoCommand, "none", "skipped", "none")
              /\ UNCHANGED <<smVars, nextId, tracker>>
         ELSE /\ tracker[n].drawn < MaxTracked
              /\ LET id == ActionId(tracker[n].drawn + 1)
                     T  == MarkExecuting(TrackAction(tracker[n], a, now), id)
                     v  == ExecuteVerdict(n, a)
                     c  == ExecuteCommand(n, a, Uuid(nextId + 1))
                 IN  IF v # "ok"
                       THEN /\ event' = PlannerEvent(n, a, NoCommand, v, v, id)
                            /\ tracker' = [tracker EXCEPT ![n] = MarkFailed(T, id, v, now)]
                            /\ UNCHANGED <<smVars, nextId>>
                       ELSE /\ DrawsUuid(a) => nextId < MaxIds
                            /\ nextId' = IF DrawsUuid(a) THEN nextId + 1 ELSE nextId
                            /\ IF c = NoCommand
                                 THEN /\ event' = PlannerEvent(n, a, NoCommand, v, "ok", id)
                                      /\ tracker' = [tracker EXCEPT ![n] =
                                                       MarkCompleted(T, id, "None", now)]
                                      /\ UNCHANGED smVars
                                 ELSE \/ /\ ReplicatorApply(n, c)
                                         /\ event' = PlannerEvent(n, a, c, v, "ok", id)
                                         /\ tracker' = [tracker EXCEPT ![n] =
                                                          MarkCompleted(T, id, "None", now)]
                                      \/ /\ ReplicatorApplyErr(n)
                                         /\ event' = PlannerEvent(n, a, NoCommand, v,
                                                                  "write failed", id)
                                         /\ tracker' = [tracker EXCEPT ![n] =
                                                          MarkFailed(T, id, "write failed", now)]
    /\ UNCHANGED <<leader, started, runner, planner, store, sideVars>>

NextPlanner ==
    \/ \E n \in Nodes : BecomeLeader(n)
    \/ \E n \in Nodes : DaemonStart(n)
    \/ \E n \in Nodes : AddGoal(n)
    \/ \E n \in Nodes : PlannerLoopTick(n)
    \/ \E n \in Nodes : \E a \in LoopPlanActions(n) : PlannerLoopAction(n, a)
    \/ \E n \in Nodes : PlannerDone(n)

SpecPlanner == Init /\ [][NextPlanner]_vars

\* The same while time passes and the loops are scheduled: a tick comes, and
\* a plan's actions come to an end.
NextPlannerFair ==
    \/ NextPlanner
    \/ ClockTick

SpecPlannerFair ==
    /\ Init
    /\ [][NextPlannerFair]_vars
    /\ \A n \in Nodes : WF_vars(PlannerLoopTick(n))
    /\ \A n \in Nodes : WF_vars(PlannerDone(n))
    /\ WF_vars(ClockTick)

(***************************************************************************)
(* Properties of the state machine                                         *)
(***************************************************************************)
\* The rank of a task status (spec I2): Pending < Scheduled < Running < terminal.
Rank(status) ==
    CASE status = "Pending" -> 0
      [] status = "Scheduled" -> 1
      [] status = "Running" -> 2
      [] status \in {"Completed", "Failed", "Cancelled"} -> 3

\* C3: applying UpdateTaskStatus with a status of lower rank than the task's
\* current status leaves the task (status, result, updated_at) unchanged.
C3_LowerRankUpdateIgnored ==
    [][\A n \in Nodes :
         LET c == log[applied'[n]] IN
         (/\ applied'[n] = applied[n] + 1
          /\ c.type = "UpdateTaskStatus"
          /\ c.task_id \in DOMAIN sm[n].tasks
          /\ Rank(c.status) < Rank(sm[n].tasks[c.task_id].status))
         => sm'[n].tasks[c.task_id] = sm[n].tasks[c.task_id]]_vars

\* C9: two replicas that have applied the same sequence of commands hold equal
\* states, whenever each of them applied each command.
C9_ReplicasAgree ==
    \A m, n \in Nodes : applied[m] = applied[n] => sm[m] = sm[n]

IdempotentTypes ==
    {"RegisterNode", "PutTask", "PutAttachment", "PutGoal",
     "RemoveNode", "RemoveAttachment", "RemoveGoal"}

\* C10: for every reachable state S and every command C among RegisterNode,
\* PutTask, PutAttachment, PutGoal and Remove*, applying C a second time
\* (later) changes nothing: apply(apply(S, C), C) = apply(S, C).
C10_IdempotentCommands ==
    \A n \in Nodes :
      \A c \in {x \in SMCommands(now) : x.type \in IdempotentTypes} :
        Apply(Apply(sm[n], c, now), c, now + 1) = Apply(sm[n], c, now)

\* C10's case: a replica has applied the same PutTask twice in a row.
C10_Witness ==
    \E n \in Nodes :
      /\ applied[n] = 2
      /\ log[1] = log[2]
      /\ log[1].type = "PutTask"

(***************************************************************************)
(* Properties of the cluster                                               *)
(***************************************************************************)
\* The calls that make a state-changing proposal.
ProposalOrigins == {"execute", "submit_task", "add_goal"}

\* A step of a call that handed a command to replicator.apply.
WroteTo(e) == e.origin # "none" /\ (e.cmd # NoCommand \/ e.result = "write failed")

\* C1: a command that a proposal (execute, POST /tasks, POST /goals) gets
\* applied was handed to the replicator only after validate returned ok to
\* the caller.
C1_ProposalsValidated ==
    (event.origin \in ProposalOrigins /\ event.cmd # NoCommand) => event.validated = "ok"

\* C2: on every node, in every step, no task's status moves to a lower rank.
C2_StatusNeverMovesBack ==
    [][\A n \in Nodes :
         \A id \in DOMAIN sm[n].tasks \cap DOMAIN sm'[n].tasks :
           Rank(sm'[n].tasks[id].status) >= Rank(sm[n].tasks[id].status)]_vars

\* C4: in every reachable state, on every replica, no node is the target of
\* more active (Pending or Running) tasks than the policy's cap.
C4_ActiveTasksWithinCap ==
    \A n \in Nodes :
      \A target \in Nodes :
        Cardinality(ActiveTasks(target, Snapshot(n))) <= Policy.max_concurrent_tasks_per_node

\* C5: whenever a PutTask is applied, the task's target_node is a key of the
\* nodes mapping of the state it is applied to.
C5_PutTaskTargetRegistered ==
    [][(event'.origin # "none" /\ event'.cmd.type = "PutTask")
         => event'.cmd.task.target_node \in DOMAIN sm[event'.node].nodes]_vars

\* C6: when validate rejects the action passed to execute, execute returns the
\* rejection and applies no command: the replicated state is unchanged.
C6_RejectedActionAppliesNothing ==
    [][\A n \in Nodes :
         (/\ planner[n].pc = "planning"
          /\ event'.origin = "execute"
          /\ event'.node = n
          /\ Validate(Policy, event'.action, Snapshot(n)) # "ok")
         => /\ event'.result = Validate(Policy, event'.action, Snapshot(n))
            /\ event'.cmd = NoCommand
            /\ sm' = sm]_vars

\* C6's case: execute has returned the rejection of a ScheduleTask whose
\* SyncDirectory reads a blocked path.
C6_Witness ==
    /\ event.origin = "execute"
    /\ event.action.kind = "ScheduleTask"
    /\ event.action.task.kind = "SyncDirectory"
    /\ event.result = "path is blocked"

\* C7: a write handed to the replicator of a node that is not the leader fails:
\* nothing is committed and no state machine changes; POST /tasks answers 500
\* and its task is in no snapshot, then or later (a task id enters a state
\* machine only in the step that drew it, and no uuid is drawn twice).
C7_NonLeaderWriteRejected ==
    [][/\ (WroteTo(event') /\ event'.node # leader)
          => /\ event'.result = "write failed"
             /\ event'.cmd = NoCommand
             /\ sm' = sm
             /\ event'.origin = "submit_task"
                  => /\ event'.status = 500
                     /\ event'.id = Uuid(nextId')
                     /\ nextId' = nextId + 1
                     /\ \A m \in Nodes : event'.id \notin DOMAIN sm'[m].tasks
       /\ \A m \in Nodes :
            \A id \in DOMAIN sm'[m].tasks \ DOMAIN sm[m].tasks :
              /\ event'.cmd.type = "PutTask"
              /\ event'.cmd.task.id = id
              /\ nextId' = nextId + 1
              /\ id = Uuid(nextId')]_vars

\* C7's case: POST /tasks on a node that is not the leader has answered 500.
C7_Witness ==
    /\ event.origin = "submit_task"
    /\ event.node # leader
    /\ event.result = "write failed"
    /\ event.status = 500

(***************************************************************************)
(* Properties of the storage                                               *)
(***************************************************************************)
\* The state obtained by applying the entries 1..k of the log to a new state.
RECURSIVE Replay(_)
Replay(k) == IF k = 0 THEN HiveStateNew ELSE Apply(Replay(k - 1), log[k], now)

\* C8: once the node has crashed and restarted, whenever no apply is under
\* way its state machine is the state obtained by applying exactly the
\* entries up to the applied index raft core holds.
C8_RecoveredStateIsReplay ==
    (store.pc = "idle" /\ store.recovered) => store.state = Replay(store.applied)

(***************************************************************************)
(* Properties of the tracker                                               *)
(***************************************************************************)
\* The tracker the calls of SpecTracker act on.
TheTracker == tracker[TrackerNode]

\* The ledger of T without the entry of id.
LedgerWithout(T, id) == MapRemove(T.actions, id)

\* The entries of T's history that record id.
HistoryOf(T, id) == {i \in 1..Len(T.action_history) : T.action_history[i].id = id}

\* C15 (amended): in every reachable tracker state, for an action that two
\* mark_failed calls have already failed (each returned true), the third
\* mark_failed returns false, removes it from the ledger and leaves it in the
\* history once, as Failed; get_stats then reports failed = 1 and pending = 0
\* when it was the only action tracked; and has_similar_pending for its action
\* returns true only if another ledger entry is similar to it.
C15_ThirdFailureIsTerminal ==
    \A id \in DOMAIN TheTracker.actions :
      LET entry == TheTracker.actions[id]
          after == MarkFailed(TheTracker, id, "error", now)
      IN  /\ entry.retry_count < TrackerConfig.max_retries - 1
               => MarkFailedReturns(TheTracker, id)
          /\ entry.retry_count = TrackerConfig.max_retries - 1
               => /\ ~MarkFailedReturns(TheTracker, id)
                  /\ id \notin DOMAIN after.actions
                  /\ Cardinality(HistoryOf(after, id)) = 1
                  /\ \A i \in HistoryOf(after, id) : after.action_history[i].status = "Failed"
                  /\ TheTracker.drawn = 1
                       => GetStats(after).failed = 1 /\ GetStats(after).pending = 0
                  /\ HasSimilarPending(after, entry.action)
                       <=> \E other \in DOMAIN TheTracker.actions \ {id} :
                              IsSimilarAction(TheTracker.actions[other].action, entry.action)

\* C15 as stated: after the third mark_failed, has_similar_pending for the
\* action returns false.
C15_Original ==
    \A id \in DOMAIN TheTracker.actions :
      TheTracker.actions[id].retry_count = TrackerConfig.max_retries - 1
        => ~HasSimilarPending(MarkFailed(TheTracker, id, "error", now),
                              TheTracker.actions[id].action)

\* C15's case: the only action tracked has failed max_retries times and is in
\* the history, Failed.
C15_Witness ==
    /\ TheTracker.drawn = 1
    /\ TheTracker.actions = EmptyMap
    /\ Len(TheTracker.action_history) = 1
    /\ TheTracker.action_history[1].status = "Failed"
    /\ TheTracker.action_history[1].retry_count = TrackerConfig.max_retries

\* C16: in every reachable tracker state and for every id, mark_failed(id)
\* on a ledger entry adds one to retry_count and either keeps the entry as
\* Proposed and returns true (new count below max_retries) or removes it,
\* appends it to the history as Failed and returns false; on an unknown id it
\* returns false and changes nothing.
C16_MarkFailed ==
    \A id \in TrackerIds :
      LET after == MarkFailed(TheTracker, id, "error", now)
          returns == MarkFailedReturns(TheTracker, id)
      IN  IF id \notin DOMAIN TheTracker.actions
            THEN ~returns /\ after = TheTracker
            ELSE LET entry == TheTracker.actions[id]
                     count == entry.retry_count + 1
                 IN  /\ LedgerWithout(after, id) = LedgerWithout(TheTracker, id)
                     /\ IF count < TrackerConfig.max_retries
                          THEN /\ returns
                               /\ id \in DOMAIN after.actions
                               /\ after.actions[id] =
                                    [entry EXCEPT !.retry_count = count,
                                                  !.status = "Proposed"]
                               /\ after.action_history = TheTracker.action_history
                          ELSE /\ ~returns
                               /\ id \notin DOMAIN after.actions
                               /\ LET last == after.action_history[Len(after.action_history)]
                                  IN  /\ last.id = id
                                      /\ last.status = "Failed"
                                      /\ last.retry_count = count
                                      /\ last.action = entry.action

\* C16's case: mark_failed has put an Executing action back to Proposed, its
\* retry_count one.
C16_Witness ==
    \E id \in DOMAIN TheTracker.actions :
      /\ TheTracker.actions[id].retry_count = 1
      /\ TheTracker.actions[id].status = "Proposed"

\* C17: an action that mark_executing has just moved to Executing has been
\* Executing for no time at all, so cleanup_stale at that moment leaves it in
\* the ledger.
C17_FreshlyExecutingNotStale ==
    [][\A id \in DOMAIN TheTracker.actions :
         (/\ TheTracker.actions[id].status = "Proposed"
          /\ id \in DOMAIN TheTracker'.actions
          /\ TheTracker'.actions[id].status = "Executing")
           => \A T \in CleanupStale(TheTracker', now') : id \in DOMAIN T.actions]_vars

\* The last max_history entries of h, in order.
NewestOf(h) ==
    IF Len(h) > TrackerConfig.max_history
      THEN SubSeq(h, Len(h) - TrackerConfig.max_history + 1, Len(h))
      ELSE h

SimilarityKinds == {"ScheduleTask", "RebalanceTask", "CancelTask", "MarkNodeDegraded"}

\* C20: is_similar_action is symmetric, relates every ScheduleTask,
\* RebalanceTask, CancelTask and MarkNodeDegraded action to itself, compares
\* two ScheduleTask actions by target node and payload variant only, and
\* relates no action of another kind to anything.
C20_SimilarityRelation ==
    event.origin = "is_similar_action"
      => LET a == event.a
             b == event.b
         IN  /\ event.result = IsSimilarAction(b, a)
             /\ (a = b /\ a.kind \in SimilarityKinds) => event.result
             /\ (a.kind = "ScheduleTask" /\ b.kind = "ScheduleTask")
                  => (event.result <=> (a.target_node = b.target_node
                                        /\ a.task.kind = b.task.kind))
             /\ (a.kind \notin SimilarityKinds \/ b.kind \notin SimilarityKinds)
                  => ~event.result

\* C20's case: two ScheduleTask actions of the same target and variant whose
\* payload contents and priority differ have been compared, and found
\* similar.
C20_Witness ==
    /\ event.origin = "is_similar_action"
    /\ event.a = ScheduleTask(EchoPayload, "n1", 5)
    /\ event.b = ScheduleTask(Payload("Echo", HomeB, EmptyPath), "n1", 3)
    /\ event.result

(***************************************************************************)
(* Properties of the planner loop                                          *)
(***************************************************************************)
\* The ids track_action can give within the bounds.
AllActionIds == {ActionId(k) : k \in 1..MaxTracked}

\* C11: while ticks keep occurring, every action that has been in a node's
\* ledger for longer than the timeout eventually leaves the ledger.
C11_TrackedActionsTerminate ==
    \A n \in Nodes : \A id \in AllActionIds :
      (/\ id \in DOMAIN tracker[n].actions
       /\ now - tracker[n].actions[id].proposed_at > TrackerConfig.action_timeout)
        ~> (id \notin DOMAIN tracker[n].actions)

\* The last step was the loop executing an action that failed with result r.
LoopFailed(r) == event.origin = "planner_loop" /\ event.result = r

\* C12: when validate has rejected an action in the loop, the tracked action
\* is out of the ledger and in the history as Failed.
C12_RejectedActionIsTerminal ==
    (/\ event.origin = "planner_loop"
     /\ event.validated \notin {"ok", "none"})
      => /\ event.id \notin DOMAIN tracker[event.node].actions
         /\ \E i \in 1..Len(tracker[event.node].action_history) :
              /\ tracker[event.node].action_history[i].id = event.id
              /\ tracker[event.node].action_history[i].status = "Failed"

\* C13: while ticks keep occurring, an action whose write failed in the
\* replicator is attempted again: it leaves the ledger or its retry_count
\* goes beyond one.
C13_FailedWriteIsRetried ==
    \A n \in Nodes : \A id \in AllActionIds :
      (LoopFailed("write failed") /\ event.node = n /\ event.id = id)
        ~> (\/ id \notin DOMAIN tracker[n].actions
            \/ tracker[n].actions[id].retry_count >= 2)

\* C14: when the write of a tracked action has failed on a node that is not
\* the leader, the action is in the ledger with its retry_count still zero.
C14_NotLeaderNotCounted ==
    (LoopFailed("write failed") /\ ~IsLeader(event.node))
      => /\ event.id \in DOMAIN tracker[event.node].actions
         /\ tracker[event.node].actions[event.id].retry_count = 0

\* C19: no node's ledger holds two actions that are similar to each other.
C19_NoSimilarPairInLedger ==
    \A n \in Nodes :
      \A id1, id2 \in DOMAIN tracker[n].actions :
        id1 # id2 => ~IsSimilarAction(tracker[n].actions[id1].action,
                                      tracker[n].actions[id2].action)

\* C19's case: the loop has just skipped an action of a later plan because a
\* similar one, which failed, is still in the ledger.
C19_Witness ==
    /\ event.origin = "planner_loop"
    /\ event.result = "skipped"
    /\ \E id \in DOMAIN tracker[event.node].actions :
         /\ IsSimilarAction(tracker[event.node].actions[id].action, event.action)
         /\ tracker[event.node].actions[id].action # event.action
         /\ tracker[event.node].actions[id].retry_count = 1

(***************************************************************************)
(* Properties of the validator                                             *)
(***************************************************************************)
\* The call recorded is validate on a ScheduleTask whose target exists and is
\* below the task cap, so that the payload decides.
ScheduleOnFreeNode ==
    /\ event.origin = "validate"
    /\ event.result # "pending"
    /\ event.action.kind = "ScheduleTask"
    /\ \E n \in event.cluster.nodes : n.node_id = event.action.target_node
    /\ Cardinality({t \in event.cluster.tasks :
                      /\ t.target_node = event.action.target_node
                      /\ t.status \in {"Pending", "Running"}})
         < event.policy.max_concurrent_tasks_per_node

\* The path policy of the specification: no blocked prefix, and an allowed
\* prefix unless the allowed list is empty.
PathAccepted(policy, path) ==
    /\ ~\E b \in policy.blocked_sync_paths : StartsWith(path, b)
    /\ \/ policy.allowed_sync_paths = {}
       \/ \E a \in policy.allowed_sync_paths : StartsWith(path, a)

\* C25: a path is accepted iff no blocked entry is a prefix of it and the
\* allowed list is empty or has a prefix of it, blocked winning over allowed;
\* a SyncDirectory payload is accepted iff its src and its dst both are.
C25_PathPolicy ==
    /\ (ScheduleOnFreeNode /\ event.action.task.kind = "SyncDirectory")
         => (event.result = "ok"
               <=> /\ PathAccepted(event.policy, event.action.task.src)
                   /\ PathAccepted(event.policy, event.action.task.dst))
    /\ (event.origin = "validate" /\ event.result # "pending")
         => \A path \in ValidatorPaths :
              /\ ValidatePathAllowed(event.policy, path) = "ok"
                   <=> PathAccepted(event.policy, path)
              /\ (\E b \in event.policy.blocked_sync_paths : StartsWith(path, b))
                   => ValidatePathAllowed(event.policy, path) # "ok"

\* C25's case: a sync whose dst is under a blocked prefix that is itself
\* under an allowed prefix has been rejected, its src being accepted.
C25_Witness ==
    /\ ScheduleOnFreeNode
    /\ event.action.task = Payload("SyncDirectory", HomeA, HomeB)
    /\ event.policy.allowed_sync_paths = {<<"/", "h", "o", "m", "e">>}
    /\ event.policy.blocked_sync_paths = {HomeB}
    /\ event.result = "path is blocked"

\* C26: for a ScheduleTask on an existing node below the cap, Echo and
\* CheckService are accepted, RestartService iff allow_restart_services,
\* DockerRun iff allow_docker, and RunCommand and Custom never, whatever the
\* policy.
C26_PayloadVerdict ==
    ScheduleOnFreeNode
      => LET k == event.action.task.kind
             accepted == event.result = "ok"
         IN  /\ k \in {"Echo", "CheckService"} => accepted
             /\ k = "RestartService" => (accepted <=> event.policy.allow_restart_services)
             /\ k = "DockerRun" => (accepted <=> event.policy.allow_docker)
             /\ k \in {"RunCommand", "Custom"} => ~accepted

\* C26's case: RunCommand has been rejected under a policy that allows
\* restarts and containers and has no path list.
C26_Witness ==
    /\ ScheduleOnFreeNode
    /\ event.action.task.kind = "RunCommand"
    /\ event.policy.allow_restart_services
    /\ event.policy.allow_docker
    /\ event.policy.allowed_sync_paths = {}
    /\ event.policy.blocked_sync_paths = {}
    /\ event.result # "ok"

\* C27: validate returns ok or a non-empty reason, and RebalanceTask is
\* accepted iff to_node and task_id exist in the snapshot, CancelTask iff
\* task_id exists, MarkNodeDegraded iff node_id exists, RemoveAttachment iff
\* the attachment exists, UpdateGoalProgress iff the goal exists,
\* RequestHumanApproval and NoOp always.
C27_ExistenceRules ==
    (event.origin = "validate" /\ event.result # "pending")
      => LET a == event.action
             c == event.cluster
             accepted == event.result = "ok"
             node(id) == \E n \in c.nodes : n.node_id = id
             task(id) == \E t \in c.tasks : t.id = id
         IN  /\ event.result # ""
             /\ a.kind = "RebalanceTask" => (accepted <=> node(a.to_node) /\ task(a.task_id))
             /\ a.kind = "CancelTask" => (accepted <=> task(a.task_id))
             /\ a.kind = "MarkNodeDegraded" => (accepted <=> node(a.node_id))
             /\ a.kind = "RemoveAttachment"
                  => (accepted <=> \E x \in c.attachments : x.id = a.attachment_id)
             /\ a.kind = "UpdateGoalProgress"
                  => (accepted <=> \E g \in c.goals : g.id = a.goal_id)
             /\ a.kind \in {"RequestHumanApproval", "NoOp"} => accepted

\* C27's case: a RebalanceTask to an existing node has been rejected because
\* its task is not in the snapshot, which holds another task.
C27_Witness ==
    /\ event.origin = "validate"
    /\ event.action = RebalanceTask("t2", "n1")
    /\ \E t \in event.cluster.tasks : t.id = "t1"
    /\ event.result = "task not found"

(***************************************************************************)
(* Properties of the tracker under two threads                             *)
(***************************************************************************)
\* C23: whatever get_stats returns while another thread calls the tracker,
\* every action tracked so far is counted in the ledger or in the history:
\* as long as the history is below its bound, pending + executing +
\* history_size is the number of actions tracked.
C23_StatsAccountForEveryAction ==
    (/\ caller.observed.kind = "Stats"
     /\ caller.observed.stats.history_size < TrackerConfig.max_history)
      => caller.observed.stats.pending + caller.observed.stats.executing
           + caller.observed.stats.history_size = caller.observed.tracked

(***************************************************************************)
(* Properties of the enrollment manager                                    *)
(***************************************************************************)
\* C29: no token has admitted more than one successful enroll.
C29_TokenAdmitsAtMostOne ==
    \A token \in DOMAIN enroll.admitted : enroll.admitted[token] <= 1

(***************************************************************************)
(* Properties of snapshots                                                 *)
(***************************************************************************)
\* C28: the encoding of the sender's state decodes to that state, and once a
\* snapshot is installed the receiver's state machine is the sender's state
\* at the snapshot's last applied log id, which the receiver takes as its own.
C28_InstalledSnapshotIsSenderState ==
    /\ Decode(Encode(store.state)) = store.state
    /\ snapshot.receiver.installed =>
         snapshot.receiver.state = Replay(snapshot.receiver.last_applied)

(***************************************************************************)
(* Properties of the daemon's loops                                        *)
(***************************************************************************)
LoopsStopped(n) ==
    /\ heartbeat[n].pc = "stopped"
    /\ runner[n].pc = "stopped"
    /\ planner[n].pc = "stopped"

C30_FailedHeartbeatNotFatal ==
    [][/\ (heartbeat[TheDaemon].pc = "apply" /\ heartbeat'[TheDaemon].pc # "apply")
            => heartbeat'[TheDaemon].pc = "idle"
       /\ (heartbeat[TheDaemon].pc # "stopped" /\ heartbeat'[TheDaemon].pc = "stopped")
            => shutdown[TheDaemon]]_vars

\* A heartbeat is being submitted after the previous one failed.
C30_Witness ==
    /\ heartbeat[TheDaemon].pc = "apply"
    /\ heartbeat[TheDaemon].last = "failed"
    /\ ~shutdown[TheDaemon]

(***************************************************************************)
(* Properties of the planner loop's tick                                   *)
(***************************************************************************)
\* The step is a tick of node n's planner loop while n is not the leader.
NonLeaderTick(n) ==
    /\ ~IsLeader(n)
    /\ planner[n].pc = "idle"
    /\ event'.origin = "planner_tick"
    /\ event'.node = n
    /\ event' # event

TaskAt(n, id, status) ==
    /\ started[n]
    /\ id \in DOMAIN sm[n].tasks
    /\ sm[n].tasks[id].target_node = n
    /\ sm[n].tasks[id].status = status

\* C21: a Pending task whose target is a running node eventually is
\* Completed or Failed, and a Running task does not stay Running for ever.
C21_PendingTaskTerminates ==
    \A n \in Nodes : \A id \in {Uuid(k) : k \in 1..MaxIds} :
      /\ TaskAt(n, id, "Pending")
           ~> (TaskAt(n, id, "Completed") \/ TaskAt(n, id, "Failed"))
      /\ TaskAt(n, id, "Running") ~> ~TaskAt(n, id, "Running")

(***************************************************************************)
(* Properties of updates for absent ids                                    *)
(***************************************************************************)
\* C31: when a replica applies UpdateNodeHealth for a node id that is not in
\* its nodes, or UpdateTaskStatus for a task id that is not in its tasks, its
\* whole state is unchanged: no node and no task is created.
C31_UpdateOfAbsentIdIsNoOp ==
    [][\A n \in Nodes :
         applied'[n] = applied[n] + 1 =>
           LET c == log[applied[n] + 1]
           IN  /\ (c.type = "UpdateNodeHealth" /\ c.node_id \notin DOMAIN sm[n].nodes)
                    => sm'[n] = sm[n]
               /\ (c.type = "UpdateTaskStatus" /\ c.task_id \notin DOMAIN sm[n].tasks)
                    => sm'[n] = sm[n]]_vars

\* A replica has applied a heartbeat of a node that was never registered and
\* a status update of a task that was never put.
C31_Witness ==
    \E n \in Nodes :
      /\ applied[n] = 2
      /\ log[1].type = "UpdateNodeHealth"
      /\ log[2].type = "UpdateTaskStatus"
      /\ sm[n] = HiveStateNew

(***************************************************************************)
(* Properties of run_task and of the loop's selection                      *)
(***************************************************************************)
\* C32: a tick of the task-runner loop selects only tasks of its snapshot
\* that target this node and are Pending; run_task for a task of another
\* node returns an error, applies nothing and does not run the payload; a
\* payload that starts running belongs to a task of this node.
C32_RunnerRunsOwnPendingTasks ==
    [][\A n \in Nodes :
         /\ (runner[n].pc = "idle" /\ runner'[n].pc = "loop" /\ event'.origin = "none")
              => \A t \in runner'[n].queue :
                   /\ t \in Snapshot(n).tasks
                   /\ t.target_node = n
                   /\ t.status = "Pending"
         /\ (runner[n].pc = "loop" /\ runner'[n] # runner[n])
              => \A t \in runner[n].queue \ runner'[n].queue :
                   t.target_node # n => /\ sm' = sm
                                        /\ runner'[n].pc # "exec"
                                        /\ event'.result = "wrong node"
         /\ (runner[n].pc # "exec" /\ runner'[n].pc = "exec")
              => runner'[n].task.target_node = n]_vars

\* run_task was called on the leader with a task of another node and
\* returned its error.
C32_Witness ==
    /\ event.origin = "run_task"
    /\ event.result = "wrong node"
    /\ IsLeader(event.node)

(***************************************************************************)
(* Properties of the loop's handling of one action                         *)
(***************************************************************************)
\* The history of the node of the last step holds the step's action with
\* this status.
LoopActionInHistory(status) ==
    \E i \in 1..Len(tracker[event.node].action_history) :
      /\ tracker[event.node].action_history[i].id = event.id
      /\ tracker[event.node].action_history[i].status = status

\* The kinds of actions for which execute applies no command.
UnappliedKinds == {"NoOp", "UpdateGoalProgress", "RequestHumanApproval"}

C34_OneExecutionPerNode ==
    [][\A n \in Nodes :
         /\ (runner'[n].pc = "exec" /\ runner'[n] # runner[n])
              => /\ runner[n].pc = "loop"
                 /\ runner'[n].task \in runner[n].queue
                 /\ runner'[n].queue = runner[n].queue
         /\ runner[n].pc \in {"loop", "exec"}
              => runner'[n].queue \subseteq runner[n].queue]_vars

\* A node is executing one of two tasks its tick selected.
C34_Witness ==
    \E n \in Nodes :
      /\ runner[n].pc = "exec"
      /\ Cardinality(runner[n].queue) = 2

(***************************************************************************)
(* Properties of enroll's tag restriction                                  *)
(***************************************************************************)
\* C35: when enroll is called with a token that is present and not expired,
\* a request with none of its tags in a non-empty allowed_tags returns the
\* tags error, leaving the tokens and what they admitted as they were, and
\* any other request goes on to the signing; with allowed_tags empty every
\* request does.
C35_TagRestriction ==
    [][\A c \in EnrollCallers :
         (/\ enroll.calls[c].pc = "idle"
          /\ enroll' # enroll
          /\ enroll'.calls[c] # enroll.calls[c]
          /\ enroll'.calls[c].token \in DOMAIN enroll.tokens
          /\ now <= enroll.tokens[enroll'.calls[c].token].expires_at)
           => LET req == enroll'.calls[c]
                  allowed == enroll.tokens[req.token].allowed_tags
              IN  IF allowed # {} /\ \A t \in req.tags : t \notin allowed
                    THEN /\ req.pc = "idle"
                         /\ req.result = "Node tags not in allowed tags"
                         /\ enroll'.tokens = enroll.tokens
                         /\ enroll'.admitted = enroll.admitted
                    ELSE req.pc = "signing"]_vars

\* A request with tag cpu was refused for a token that allows gpu, and a
\* request with that token has succeeded afterwards.
C35_Witness ==
    /\ enroll.calls["c1"].result = "Node tags not in allowed tags"
    /\ enroll.calls["c1"].tags = {"cpu"}
    /\ enroll.calls["c2"].result = "ok"
    /\ enroll.calls["c2"].token = enroll.calls["c1"].token
    /\ enroll.admitted[enroll.calls["c1"].token] = 1

(***************************************************************************)
(* Properties of executions across the cluster                             *)
(***************************************************************************)
\* C36: a task whose execution has started on a node is not started again:
\* in particular no two nodes are executing the same task at once.
C36_TaskExecutedOnce ==
    \A n, m \in Nodes :
      (n # m /\ runner[n].pc = "exec" /\ runner[m].pc = "exec")
        => runner[n].task.id # runner[m].task.id

\* C37: a task that is Cancelled in the replicated state does not become
\* Running or Completed, and no runner starts executing it.
C37_CancelledTaskNotRun ==
    [][\A n \in Nodes : \A id \in DOMAIN sm[n].tasks :
         sm[n].tasks[id].status = "Cancelled"
           => /\ id \in DOMAIN sm'[n].tasks
              /\ sm'[n].tasks[id].status \notin {"Running", "Completed"}
              /\ \A m \in Nodes :
                   ~(/\ runner[m].pc = "loop"
                     /\ runner'[m].pc = "exec"
                     /\ runner'[m].task.id = id)]_vars

(***************************************************************************)
(* Properties of the tracker's records                                     *)
(***************************************************************************)
\* C38: every action of the ledger is Proposed or Executing with fewer than
\* max_retries retries, every action of the history is Completed or Failed
\* with its result set, and get_stats counts accordingly.
C38_LedgerAndHistoryStatuses ==
    LET T == TheTracker
        stats == GetStats(T)
    IN  /\ \A id \in DOMAIN T.actions :
             /\ T.actions[id].status \in {"Proposed", "Executing"}
             /\ T.actions[id].retry_count < TrackerConfig.max_retries
        /\ \A i \in 1..Len(T.action_history) :
             /\ T.action_history[i].status \in {"Completed", "Failed"}
             /\ T.action_history[i].result # NoResult
        /\ stats.pending + stats.executing = Cardinality(DOMAIN T.actions)
        /\ stats.completed + stats.failed = stats.history_size

\* The ledger holds an action that failed twice and the history one that
\* timed out or failed for good.
C38_Witness ==
    /\ \E id \in DOMAIN TheTracker.actions : TheTracker.actions[id].retry_count = 2
    /\ Len(TheTracker.action_history) >= 1
    /\ TheTracker.action_history[1].status = "Failed"

(***************************************************************************)
(* Properties of the tracker's locks                                       *)
(***************************************************************************)
\* Thread t is at an acquisition that cannot return in this state.
Blocked(t) ==
    /\ caller.threads[t].prog # << >>
    /\ Head(caller.threads[t].prog).do = "acquire"
    /\ ~CanAcquire(t, Head(caller.threads[t].prog).lock, Head(caller.threads[t].prog).mode)

\* The locks thread t holds.
HeldBy(t) ==
    {l \in DOMAIN caller.locks : caller.locks[l].writer = t \/ t \in caller.locks[l].readers}

\* C39: tracker operations never deadlock.  Whenever a call is in progress
\* some thread can take its next step, no thread asks for a lock it already
\* holds, no thread asks for actions while it holds action_history, and every
\* call returns.
C39_NoDeadlock ==
    /\ [](\A t \in LockThreads :
            caller.threads[t].prog # << >> =>
              /\ \E u \in LockThreads : caller.threads[u].prog # << >> /\ ~Blocked(u)
              /\ Head(caller.threads[t].prog).do = "acquire" =>
                   /\ Head(caller.threads[t].prog).lock \notin HeldBy(t)
                   /\ ~(Head(caller.threads[t].prog).lock = "actions"
                        /\ "action_history" \in HeldBy(t)))
    /\ \A t \in LockThreads :
         (caller.threads[t].op # "idle") ~> (caller.threads[t].op = "idle")

\* mark_completed holds actions and waits for action_history, which another
\* thread holds, while a third waits for actions.
C39_Witness ==
    \E t, u, v \in LockThreads :
      /\ caller.threads[t].op = "mark_completed"
      /\ HeldBy(t) = {"actions"}
      /\ Blocked(t)
      /\ "action_history" \in HeldBy(u)
      /\ caller.threads[v].op = "get_stats"
      /\ Blocked(v)

(***************************************************************************)
(* Properties of a node's health                                           *)
(***************************************************************************)
\* C40: a node that MarkNodeDegraded made Degraded is still Degraded after
\* its own heartbeat has been applied.
C40_HeartbeatKeepsDegraded ==
    [][\A k, m \in Nodes :
         (/\ m \in DOMAIN sm[k].nodes
          /\ sm[k].nodes[m].health = "Degraded"
          /\ event'.origin = "heartbeat"
          /\ event'.node = m
          /\ event'.result = "ok")
           => /\ m \in DOMAIN sm'[k].nodes
              /\ sm'[k].nodes[m].health = "Degraded"]_vars

=============================================================================
